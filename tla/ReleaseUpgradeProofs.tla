------------------------ MODULE ReleaseUpgradeProofs ------------------------
(***************************************************************************)
(* Proofs about the cutover: the safety properties of ReleaseUpgrade hold  *)
(* for any number of runs, failing commands, kills and commits of V2.1.    *)
(***************************************************************************)
EXTENDS ReleaseUpgrade, TLAPS

-----------------------------------------------------------------------------
(* The inductive invariant.                                                *)

(* A run that copies has found the port free: neither release is up.       *)
AtRest == pc \in Copying => v21 # "up" /\ ~v22.up

(* What V2.2 serves from, or will once more, has been accepted; only a     *)
(* reuse takes a V2.2 away that can come back.                             *)
Acceptance ==
    /\ ServesAccepted
    /\ pc = "up" => target.stage = "accepted"
    /\ ctx.old22 # 0 => ctx.disposition = "reuse" /\ target.stage = "accepted"
    /\ pc = "stop22" => ctx.disposition = "reuse"
    /\ pc \in Copying => ctx.disposition \in {"clone", "reclone"}

(* A first cutover that found V2.1 up still has it, or the list of what it *)
(* stopped has it.                                                         *)
Restores ==
    /\ pc # "idle" /\ ctx.disposition # "reuse" /\ ctx.before = "v21"
           => v21 = "up" \/ ctx.old21
    /\ V21Restored

(* What the run and its transcript say of the target is so.                *)
Disclosed ==
    /\ pc = "idle" => ctx = NoRun
    /\ pc # "idle" => ctx.disposition # "none"
    /\ pc # "idle" => transcript.status = "open"
    /\ ctx.disposition = "reuse" => ctx.accepted
    /\ pc \in {"up", "ready", "finish"} => ctx.accepted
    /\ pc \in Copying \cup {"wait", "stop22", "stop21", "port"} /\ ctx.accepted
           => ctx.disposition = "reuse"
    /\ pc = "check" => ctx.disposition = "reuse"

(* A target that has served, and that no run has missed since, is known to *)
(* be accepted, by the run and by the transcript that the next one reads.  *)
Served ==
    target.served /\ ~target.missed =>
        /\ target.stage = "accepted"
        /\ pc # "idle" => ctx.accepted
        /\ pc = "idle" => ~Recoverable

(* A target that was left in the middle belongs to a run that copies.      *)
Unfinished ==
    target.stage \in Incomplete =>
        /\ pc # "idle" => /\ ctx.disposition \in {"clone", "reclone"}
                          /\ ~ctx.accepted
                          /\ pc = "record" => Unused
        /\ pc = "idle" /\ kills = 0 => Recoverable /\ Unused

Inv == TypeOK /\ AtRest /\ Acceptance /\ Restores /\ Disclosed /\ Served /\ Unfinished

-----------------------------------------------------------------------------
(* The sets of TypeOK, by name.                                            *)
Volume == [stage : Stages, from : 0..MaxWrites, served : BOOLEAN, missed : BOOLEAN]
Container == [id : 0..MaxRuns, up : BOOLEAN]
Dispositions == {"none", "clone", "reclone", "reuse"}
Context == [disposition : Dispositions, accepted : BOOLEAN, old21 : BOOLEAN,
            old22 : 0..MaxRuns, before : {"none", "v21", "v22"}, refused : BOOLEAN]
Report == [status : {"none", "open", "failed", "accepted"},
           disposition : Dispositions, accepted : BOOLEAN]

-----------------------------------------------------------------------------
(* Types of what the steps write.                                         *)

(* What a step makes of the context of a run, or writes of it in the       *)
(* transcript.                                                             *)
LEMMA ContextTypes ==
    ASSUME ctx \in Context
    PROVE  /\ [ctx EXCEPT !.refused = TRUE] \in Context
           /\ [ctx EXCEPT !.old21 = TRUE] \in Context
           /\ [ctx EXCEPT !.accepted = TRUE] \in Context
           /\ \A i \in 0..MaxRuns : [ctx EXCEPT !.old22 = i] \in Context
           /\ NoRun \in Context
           /\ \A s \in {"open", "failed", "accepted"} : Transcript(s, ctx) \in Report
    <1>1. [ctx EXCEPT !.refused = TRUE] \in Context
        BY DEF Context
    <1>2. [ctx EXCEPT !.old21 = TRUE] \in Context
        BY DEF Context
    <1>3. [ctx EXCEPT !.accepted = TRUE] \in Context
        BY DEF Context
    <1>4. \A i \in 0..MaxRuns : [ctx EXCEPT !.old22 = i] \in Context
        BY DEF Context
    <1>5. NoRun \in Context
        BY UpgradeAssumption DEF Context, NoRun, Dispositions
    <1>6. \A s \in {"open", "failed", "accepted"} : Transcript(s, ctx) \in Report
        BY DEF Context, Report, Transcript
    <1> QED BY <1>1, <1>2, <1>3, <1>4, <1>5, <1>6

(* What a step makes of the target volume.                                 *)
LEMMA VolumeTypes ==
    ASSUME TypeOK
    PROVE  /\ Empty \in Volume
           /\ [target EXCEPT !.served = TRUE] \in Volume
           /\ \A b \in BOOLEAN : [target EXCEPT !.missed = b] \in Volume
           /\ [target EXCEPT !.stage = "partial", !.from = source] \in Volume
           /\ \A s \in Stages : [target EXCEPT !.stage = s] \in Volume
    <1>1. target \in Volume /\ source \in 0..MaxWrites
        BY DEF TypeOK, Volume
    <1>2. Empty \in Volume
        BY UpgradeAssumption DEF Volume, Empty, Stages
    <1>3. [target EXCEPT !.served = TRUE] \in Volume
        BY <1>1 DEF Volume
    <1>4. [target EXCEPT !.stage = "partial", !.from = source] \in Volume
        BY <1>1 DEF Volume, Stages
    <1>5. \A s \in Stages : [target EXCEPT !.stage = s] \in Volume
        BY <1>1 DEF Volume
    <1>6. \A b \in BOOLEAN : [target EXCEPT !.missed = b] \in Volume
        BY <1>1 DEF Volume
    <1> QED BY <1>2, <1>3, <1>4, <1>5, <1>6

(* What a step makes of the container of V2.2.                             *)
LEMMA ContainerTypes ==
    ASSUME v22 \in Container
    PROVE  /\ \A b \in BOOLEAN : [v22 EXCEPT !.up = b] \in Container
           /\ None \in Container
           /\ \A i \in 0..MaxRuns : [id |-> i, up |-> TRUE] \in Container
    <1>1. \A b \in BOOLEAN : [v22 EXCEPT !.up = b] \in Container
        BY DEF Container
    <1>2. None \in Container
        BY UpgradeAssumption DEF Container, None
    <1>3. \A i \in 0..MaxRuns : [id |-> i, up |-> TRUE] \in Container
        BY DEF Container
    <1> QED BY <1>1, <1>2, <1>3

(* The context with which a run begins.                                    *)
LEMMA OpensContext ==
    ASSUME TypeOK, NEW d \in {"clone", "reclone", "reuse"}, Opens(d)
    PROVE  /\ ctx' \in Context /\ transcript' \in Report
           /\ ctx'.disposition = d /\ ctx'.old22 = 0
           /\ ctx'.accepted <=> d = "reuse"
           /\ ctx'.before = Serving
           /\ transcript'.status = "open"
           /\ pc' = "wait"
    <1> DEFINE c == [disposition |-> d, accepted |-> (d = "reuse"), old21 |-> FALSE,
                     old22 |-> 0, before |-> Serving, refused |-> FALSE]
    <1>1. ctx' = c
        BY DEF Opens, NoRun
    <1>2. Serving \in {"none", "v21", "v22"}
        BY DEF Serving
    <1>3. c \in Context
        BY <1>2, UpgradeAssumption DEF Context, Dispositions
    <1>4. transcript' = [status |-> "open", disposition |-> d, accepted |-> ctx'.accepted]
        BY <1>1 DEF Opens, Transcript, NoRun
    <1>5. transcript' \in Report
        BY <1>1, <1>3, <1>4 DEF Report, Context, Dispositions
    <1>6. pc' = "wait"
        BY DEF Opens
    <1>7. ctx'.accepted <=> d = "reuse"
        BY <1>1
    <1> QED BY <1>1, <1>3, <1>4, <1>5, <1>6, <1>7

-----------------------------------------------------------------------------
(* Each step keeps the invariant.                                          *)

(* V2.1 commits: its volume alone moves on.                                *)
LEMMA Work21Keeps ==
    ASSUME Inv, Work21
    PROVE  Inv'
    <1>1. TypeOK'
        BY UpgradeAssumption DEF Inv, Work21, TypeOK
    <1>2. AtRest'
        BY DEF Inv, Work21, AtRest
    <1>3. Acceptance'
        BY DEF Inv, Work21, Acceptance, ServesAccepted
    <1>4. Restores'
        BY DEF Work21, Restores, V21Restored
    <1>5. Disclosed'
        BY DEF Inv, Work21, Disclosed
    <1>6. Served'
        BY DEF Inv, Work21, Served, Recoverable
    <1>7. Unfinished'
        BY DEF Inv, Work21, Unfinished, Recoverable, Unused
    <1> QED BY <1>1, <1>2, <1>3, <1>4, <1>5, <1>6, <1>7 DEF Inv

(* V2.2 commits, and what it serves from has served.                       *)
LEMMA Work22Keeps ==
    ASSUME Inv, Work22
    PROVE  Inv'
    <1>1. TypeOK'
        BY DEF Inv, Work22, volumes, TypeOK
    <1>2. AtRest'
        BY DEF Inv, Work22, AtRest
    <1>3. Acceptance'
        BY DEF Inv, Work22, Acceptance, ServesAccepted, volumes
    <1>4. Restores'
        BY DEF Inv, Work22, Restores, V21Restored
    <1>5. Disclosed'
        BY DEF Inv, Work22, Disclosed
    <1>6. Served'
        BY DEF Inv, Work22, Served, Recoverable, volumes
    <1>7. Unfinished'
        BY DEF Inv, Work22, Unfinished, Recoverable, Unused, volumes
    <1> QED BY <1>1, <1>2, <1>3, <1>4, <1>5, <1>6, <1>7 DEF Inv

(* An operator stops a release.                                            *)
LEMMA DownKeeps ==
    ASSUME Inv, Down
    PROVE  Inv'
    <1>1. TypeOK'
        BY DEF Inv, Down, Disclosed, NoRun, None, volumes, TypeOK
    <1>2. AtRest'
        BY DEF Down, AtRest, Copying
    <1>3. Acceptance'
        BY DEF Inv, Down, Acceptance, ServesAccepted, None, volumes
    <1>4. Restores'
        BY DEF Down, Restores, V21Restored
    <1>5. Disclosed'
        BY DEF Inv, Down, Disclosed
    <1>6. Served'
        BY DEF Inv, Down, Served, Recoverable, volumes
    <1>7. Unfinished'
        BY DEF Inv, Down, Unfinished, Unused, volumes
    <1> QED BY <1>1, <1>2, <1>3, <1>4, <1>5, <1>6, <1>7 DEF Inv

(* A run decides: it clones into a target that is empty or that it takes   *)
(* for missing, clones again into one that was left unfinished, reuses the *)
(* accepted one, or refuses.                                               *)
LEMMA StartKeeps ==
    ASSUME Inv, Start PROVE Inv'
    <1>1. pc = "idle" /\ TypeOK /\ UNCHANGED <<source, v21, v22, busy, kills>>
        BY DEF Inv, Start, containers
    <1>2. faults' \in 0..MaxFaults /\ runs' \in 0..MaxRuns
        BY UpgradeAssumption DEF Inv, TypeOK, Start
    <1>3. CASE UNCHANGED <<target, ctx, transcript, pc>>
        <2>1. TypeOK'
            BY <1>1, <1>2, <1>3 DEF TypeOK
        <2> QED BY <1>1, <1>3, <2>1
                DEF Inv, AtRest, Acceptance, ServesAccepted, Restores, V21Restored, Disclosed,
                    Served, Unfinished, Recoverable, Unused, Copying
    <1>4. ASSUME NEW d \in {"clone", "reclone", "reuse"}, Opens(d),
                 NEW b \in BOOLEAN, target' = [target EXCEPT !.missed = b],
                 d = "clone" => (target.stage = "empty" /\ b = target.missed) \/ b,
                 d = "reuse" => Acceptable,
                 d = "reclone" => Recoverable /\ b = target.missed
          PROVE  Inv'
        <2>1. /\ ctx' \in Context /\ transcript' \in Report
              /\ ctx'.disposition = d /\ ctx'.old22 = 0
              /\ ctx'.accepted <=> d = "reuse"
              /\ ctx'.before = Serving
              /\ transcript'.status = "open"
              /\ pc' = "wait"
            BY <1>1, <1>4, OpensContext
        <2>2. /\ target' \in Volume /\ target'.stage = target.stage
              /\ target'.served = target.served /\ target'.missed = b
            <3>1. target \in Volume
                BY <1>1 DEF TypeOK, Volume
            <3> QED BY <1>1, <1>4, <3>1, VolumeTypes DEF Volume
        <2>3. TypeOK'
            BY <1>1, <1>2, <2>1, <2>2 DEF TypeOK, Volume, Context, Report, Dispositions, Steps
        <2>4. AtRest' /\ Acceptance'
            BY <1>1, <2>1, <2>2 DEF Inv, AtRest, Acceptance, ServesAccepted, Copying
        <2>5. Restores'
            BY <1>1, <2>1 DEF Restores, V21Restored, Serving
        <2>6. Disclosed'
            BY <2>1, <1>4 DEF Disclosed, Copying
        <2>7. Served'
            <3>1. CASE d = "reuse"
                BY <1>4, <2>1, <2>2, <3>1 DEF Served, Acceptable
            <3>2. CASE d = "clone"
                BY <1>1, <1>4, <2>2, <3>2 DEF Inv, Served
            <3>3. CASE d = "reclone"
                BY <1>1, <1>4, <2>2, <3>3 DEF Inv, Served
            <3> QED BY <3>1, <3>2, <3>3
        <2>8. Unfinished'
            BY <1>1, <1>4, <2>1, <2>2 DEF Unfinished, Acceptable, Incomplete
        <2> QED BY <2>3, <2>4, <2>5, <2>6, <2>7, <2>8 DEF Inv
    <1>5. \/ UNCHANGED <<target, ctx, transcript, pc>>
          \/ \E d \in {"clone", "reclone", "reuse"}, b \in BOOLEAN :
                 /\ Opens(d) /\ target' = [target EXCEPT !.missed = b]
                 /\ d = "clone" => (target.stage = "empty" /\ b = target.missed) \/ b
                 /\ d = "reuse" => Acceptable
                 /\ d = "reclone" => Recoverable /\ b = target.missed
        <2>1. /\ target.missed \in BOOLEAN
              /\ target = [target EXCEPT !.missed = target.missed]
            BY <1>1 DEF TypeOK
        <2>2. CASE target.stage = "empty" /\ Opens("clone") /\ target' = target
            BY <2>1, <2>2
        <2>3. CASE Acceptable /\ Opens("reuse") /\ target' = [target EXCEPT !.missed = FALSE]
            BY <2>3
        <2>4. CASE Recoverable /\ Opens("reclone") /\ target' = target
            BY <2>1, <2>4
        <2>5. CASE Opens("clone") /\ target' = [target EXCEPT !.missed = TRUE]
            BY <2>5
        <2> QED BY <2>2, <2>3, <2>4, <2>5 DEF Start
    <1> QED BY <1>3, <1>4, <1>5

(* waitForQuiescence ends or is refused.                                   *)
LEMMA WaitKeeps ==
    ASSUME Inv, Wait
    PROVE  Inv'
    <1>1. TypeOK'
        <2>1. TypeOK /\ ctx \in Context
            BY DEF Inv, TypeOK, Context, Dispositions
        <2>2. ctx' \in Context
            BY <2>1, ContextTypes DEF Wait
        <2>3. pc' \in Steps
            BY DEF Wait, Steps
        <2> QED BY <2>1, <2>2, <2>3 DEF Wait, TypeOK, Context, Dispositions, containers, volumes
    <1>2. AtRest'
        BY DEF Wait, AtRest, Copying
    <1>3. Acceptance'
        BY DEF Inv, Wait, Acceptance, ServesAccepted, Copying, containers, volumes, TypeOK,
            Release
    <1>4. Restores'
        BY DEF Inv, Wait, Restores, V21Restored, containers, TypeOK
    <1>5. Disclosed'
        BY DEF Inv, Wait, Disclosed, TypeOK
    <1>6. Served'
        BY DEF Inv, Wait, Served, volumes, TypeOK
    <1>7. Unfinished'
        BY DEF Inv, Wait, Unfinished, volumes, TypeOK
    <1> QED BY <1>1, <1>2, <1>3, <1>4, <1>5, <1>6, <1>7 DEF Inv

(* The V2.2 that serves is stopped, to be restarted if the run fails.      *)
LEMMA Stop22Keeps ==
    ASSUME Inv, Stop22
    PROVE  Inv'
    <1>1. TypeOK'
        <2>1. TypeOK /\ ctx \in Context /\ v22 \in Container /\ v22.id \in 0..MaxRuns
            BY DEF Inv, TypeOK, Context, Container, Dispositions
        <2>2. ctx' \in Context
            BY <2>1, ContextTypes DEF Stop22
        <2>3. v22' \in Container
            BY <2>1, ContainerTypes DEF Stop22
        <2>4. faults' \in 0..MaxFaults
            BY <2>1, UpgradeAssumption DEF Stop22, TypeOK
        <2> QED BY <2>1, <2>2, <2>3, <2>4
                DEF Stop22, TypeOK, Context, Container, Dispositions, Steps, volumes
    <1>2. AtRest'
        BY DEF Stop22, AtRest, Copying
    <1>3. Acceptance'
        BY DEF Inv, Stop22, Acceptance, ServesAccepted, Copying, volumes, TypeOK
    <1>4. Restores'
        BY DEF Inv, Stop22, Restores, V21Restored, TypeOK
    <1>5. Disclosed'
        BY DEF Inv, Stop22, Disclosed, TypeOK
    <1>6. Served'
        BY DEF Inv, Stop22, Served, volumes, TypeOK
    <1>7. Unfinished'
        BY DEF Inv, Stop22, Unfinished, volumes, TypeOK
    <1> QED BY <1>1, <1>2, <1>3, <1>4, <1>5, <1>6, <1>7 DEF Inv

(* V2.1 is stopped, to be restarted if the run fails.                      *)
LEMMA Stop21Keeps ==
    ASSUME Inv, Stop21
    PROVE  Inv'
    <1>1. TypeOK'
        <2>1. TypeOK /\ ctx \in Context
            BY DEF Inv, TypeOK, Context, Dispositions
        <2>2. ctx' \in Context
            BY <2>1, ContextTypes DEF Stop21
        <2>3. faults' \in 0..MaxFaults
            BY <2>1, UpgradeAssumption DEF Stop21, TypeOK
        <2> QED BY <2>1, <2>2, <2>3 DEF Stop21, TypeOK, Context, Dispositions, Steps, volumes
    <1>2. AtRest'
        BY DEF Stop21, AtRest, Copying
    <1>3. Acceptance'
        BY DEF Inv, Stop21, Acceptance, ServesAccepted, Copying, volumes, TypeOK
    <1>4. Restores'
        BY DEF Inv, Stop21, Restores, V21Restored, TypeOK
    <1>5. Disclosed'
        BY DEF Inv, Stop21, Disclosed, TypeOK
    <1>6. Served'
        BY DEF Inv, Stop21, Served, volumes, TypeOK
    <1>7. Unfinished'
        BY DEF Inv, Stop21, Unfinished, volumes, TypeOK
    <1> QED BY <1>1, <1>2, <1>3, <1>4, <1>5, <1>6, <1>7 DEF Inv

(* waitForPortDisposition, after which a run that copies copies.           *)
LEMMA PortKeeps ==
    ASSUME Inv, Port
    PROVE  Inv'
    <1>1. TypeOK'
        BY DEF Inv, Port, Copying, Starting, Steps, containers, volumes, TypeOK
    <1>2. AtRest'
        BY DEF Port, AtRest, Copying, containers, PortFree, Serving
    <1>3. Acceptance'
        BY DEF Inv, Port, Disclosed, Acceptance, ServesAccepted, Copying, containers, volumes,
            TypeOK
    <1>4. Restores'
        BY DEF Inv, Port, Restores, V21Restored, containers
    <1>5. Disclosed'
        <2>1. ctx' = ctx /\ transcript' = transcript /\ pc = "port"
            BY DEF Port
        <2>2. pc' \in {"restore", "check", "reset", "extract"}
            BY DEF Port
        <2>3. pc' = "check" => ctx.disposition = "reuse"
            BY DEF Port
        <2>4. pc' \in {"reset", "extract"} => ~ctx.accepted
            <3>1. pc' \in {"reset", "extract"} => ctx.disposition # "reuse"
                BY DEF Port
            <3> QED BY <2>1, <3>1 DEF Inv, Disclosed
        <2> QED BY <2>1, <2>2, <2>3, <2>4 DEF Inv, Disclosed, Copying
    <1>6. Served'
        BY DEF Inv, Port, Served, volumes
    <1>7. Unfinished'
        BY DEF Inv, Port, Unfinished, volumes
    <1> QED BY <1>1, <1>2, <1>3, <1>4, <1>5, <1>6, <1>7 DEF Inv

(* The unfinished target is removed.                                       *)
LEMMA ResetKeeps ==
    ASSUME Inv, Reset
    PROVE  Inv'
    <1>1. TypeOK'
        BY UpgradeAssumption DEF Inv, Reset, Copying, Steps, Stages, containers, TypeOK, Empty
    <1>2. AtRest'
        BY DEF Inv, Reset, AtRest, Starting, Steps, containers, TypeOK
    <1>3. Acceptance'
        BY DEF Inv, Reset, Acceptance, ServesAccepted, AtRest, Starting, Steps, containers,
            TypeOK
    <1>4. Restores'
        BY DEF Inv, Reset, Restores, V21Restored, containers
    <1>5. Disclosed'
        BY DEF Inv, Reset, Disclosed, Starting, Steps, TypeOK
    <1>6. Served'
        BY DEF Reset, Served, Empty
    <1>7. Unfinished'
        BY DEF Reset, Unfinished, Incomplete, Empty
    <1> QED BY <1>1, <1>2, <1>3, <1>4, <1>5, <1>6, <1>7 DEF Inv

(* The copy of the volume of V2.1, into an empty target.                   *)
LEMMA ExtractKeeps ==
    ASSUME Inv, Extract
    PROVE  Inv'
    <1>1. TypeOK'
        <2>1. target' \in Volume
            BY VolumeTypes DEF Inv, Extract, TypeOK, Volume
        <2> QED BY <2>1 DEF Inv, Extract, TypeOK, Volume, containers, Steps, Copying
    <1>2. AtRest'
        BY DEF Inv, Extract, AtRest, Starting, Steps, containers, TypeOK
    <1>3. Acceptance'
        BY DEF Inv, Extract, Acceptance, ServesAccepted, AtRest, Starting, Steps, containers,
            TypeOK
    <1>4. Restores'
        BY DEF Inv, Extract, Restores, V21Restored, containers, Starting, Steps, TypeOK
    <1>5. Disclosed'
        BY DEF Inv, Extract, Disclosed, Starting, Steps, TypeOK
    <1>6. Served'
        BY DEF Inv, Extract, Served, Disclosed, Acceptance, Starting, Steps, TypeOK
    <1>7. Unfinished'
        BY DEF Inv, Extract, Unfinished, Disclosed, Acceptance, Starting, Steps, TypeOK
    <1> QED BY <1>1, <1>2, <1>3, <1>4, <1>5, <1>6, <1>7 DEF Inv

(* The copy is compared with its source.                                   *)
LEMMA VerifyKeeps ==
    ASSUME Inv, Verify
    PROVE  Inv'
    <1>1. TypeOK'
        BY DEF Inv, Verify, Copying, Steps, Stages, containers, TypeOK
    <1>2. AtRest'
        BY DEF Inv, Verify, AtRest, Starting, Steps, containers, TypeOK
    <1>3. Acceptance'
        BY DEF Inv, Verify, Acceptance, ServesAccepted, AtRest, Starting, Steps, containers,
            TypeOK
    <1>4. Restores'
        BY DEF Inv, Verify, Restores, V21Restored, containers
    <1>5. Disclosed'
        BY DEF Inv, Verify, Disclosed, Starting, Steps, TypeOK
    <1>6. Served'
        BY DEF Inv, Verify, Served, Disclosed, Acceptance, Starting, Steps, TypeOK
    <1>7. Unfinished'
        BY DEF Inv, Verify, Unfinished, Disclosed, Acceptance, Starting, Steps, TypeOK
    <1> QED BY <1>1, <1>2, <1>3, <1>4, <1>5, <1>6, <1>7 DEF Inv

(* The migration of the copy.                                              *)
LEMMA MigrateKeeps ==
    ASSUME Inv, Migrate
    PROVE  Inv'
    <1>1. TypeOK'
        BY DEF Inv, Migrate, Copying, Steps, Stages, containers, TypeOK
    <1>2. AtRest'
        BY DEF Inv, Migrate, AtRest, Starting, Steps, containers, TypeOK
    <1>3. Acceptance'
        BY DEF Inv, Migrate, Acceptance, ServesAccepted, AtRest, Starting, Steps, containers,
            TypeOK
    <1>4. Restores'
        BY DEF Inv, Migrate, Restores, V21Restored, containers
    <1>5. Disclosed'
        BY DEF Inv, Migrate, Disclosed, Starting, Steps, TypeOK
    <1>6. Served'
        BY DEF Inv, Migrate, Served, Disclosed, Acceptance, Starting, Steps, TypeOK
    <1>7. Unfinished'
        BY DEF Inv, Migrate, Unfinished, Disclosed, Acceptance, Starting, Steps, TypeOK
    <1> QED BY <1>1, <1>2, <1>3, <1>4, <1>5, <1>6, <1>7 DEF Inv

(* The acceptance is recorded in the volume first, then in the transcript. *)
LEMMA AcceptKeeps ==
    ASSUME Inv, Accept
    PROVE  Inv'
    <1>1. TypeOK'
        <2>1. TypeOK /\ ctx \in Context
            BY DEF Inv, TypeOK, Context, Dispositions
        <2>2. target' \in Volume
            <3>1. target' = target \/ target' = [target EXCEPT !.stage = "accepted"]
                BY DEF Accept
            <3>2. target \in Volume /\ "accepted" \in Stages
                BY <2>1 DEF TypeOK, Volume, Stages
            <3> QED BY <2>1, <3>1, <3>2, VolumeTypes
        <2>3. ctx' \in Context
            BY <2>1, ContextTypes DEF Accept
        <2>4. transcript' \in Report
            <3>1. transcript' = Transcript("open", ctx') \/ transcript' = transcript
                BY DEF Accept
            <3>2. transcript \in Report
                BY <2>1 DEF TypeOK, Report, Dispositions
            <3>3. Transcript("open", ctx') \in Report
                BY <2>3 DEF Transcript, Report, Context
            <3> QED BY <3>1, <3>2, <3>3
        <2>5. faults' \in 0..MaxFaults
            BY <2>1, UpgradeAssumption DEF Accept, TypeOK
        <2>6. pc' \in Steps
            BY DEF Accept, Steps, Starting
        <2> QED BY <2>1, <2>2, <2>3, <2>4, <2>5, <2>6
                DEF Accept, TypeOK, Volume, Context, Report, Dispositions, containers
    <1>2. AtRest'
        BY DEF Inv, Accept, AtRest, Starting, Steps, containers, TypeOK
    <1>3. Acceptance'
        BY DEF Inv, Accept, Acceptance, ServesAccepted, Starting, Steps, containers, TypeOK
    <1>4. Restores'
        BY DEF Inv, Accept, Restores, V21Restored, containers, TypeOK
    <1>5. Disclosed'
        BY DEF Inv, Accept, Disclosed, Transcript, Copying, TypeOK
    <1>6. Served'
        BY DEF Inv, Accept, Served, TypeOK
    <1>7. Unfinished'
        BY DEF Inv, Accept, Unfinished, Incomplete, TypeOK
    <1> QED BY <1>1, <1>2, <1>3, <1>4, <1>5, <1>6, <1>7 DEF Inv

(* A reused target has to be accepted.                                     *)
LEMMA CheckReusedKeeps ==
    ASSUME Inv, CheckReused
    PROVE  Inv'
    <1>1. TypeOK'
        BY DEF Inv, CheckReused, Starting, Steps, containers, volumes, TypeOK
    <1>2. AtRest'
        BY DEF CheckReused, AtRest, Copying
    <1>3. Acceptance'
        BY DEF Inv, CheckReused, Acceptance, ServesAccepted, Copying, containers, volumes,
            Acceptable
    <1>4. Restores'
        BY DEF Inv, CheckReused, Restores, V21Restored, containers
    <1>5. Disclosed'
        BY DEF Inv, CheckReused, Disclosed
    <1>6. Served'
        BY DEF Inv, CheckReused, Served, volumes
    <1>7. Unfinished'
        BY DEF Inv, CheckReused, Unfinished, volumes
    <1> QED BY <1>1, <1>2, <1>3, <1>4, <1>5, <1>6, <1>7 DEF Inv

(* compose up of V2.2.                                                     *)
LEMMA UpKeeps ==
    ASSUME Inv, Up
    PROVE  Inv'
    <1>1. TypeOK'
        <2>1. target' \in Volume
            BY VolumeTypes DEF Inv, Up
        <2>2. v22' \in Container
            <3>1. v22 \in Container /\ runs \in 0..MaxRuns
                BY DEF Inv, TypeOK, Container
            <3> QED BY <3>1, ContainerTypes DEF Up
        <2>3. pc' \in Steps
            BY DEF Up, Steps, Starting
        <2> QED BY <2>1, <2>2, <2>3 DEF Inv, Up, TypeOK, Volume, Container
    <1>2. AtRest'
        BY DEF Up, AtRest, Copying
    <1>3. Acceptance'
        BY DEF Inv, Up, Acceptance, ServesAccepted, Copying
    <1>4. Restores'
        BY DEF Inv, Up, Restores, V21Restored
    <1>5. Disclosed'
        BY DEF Inv, Up, Disclosed, Copying
    <1>6. Served'
        BY DEF Inv, Up, Served, Disclosed, Acceptance
    <1>7. Unfinished'
        BY DEF Inv, Up, Unfinished
    <1> QED BY <1>1, <1>2, <1>3, <1>4, <1>5, <1>6, <1>7 DEF Inv

(* The container answers, and its volume is the accepted one.              *)
LEMMA ReadyKeeps ==
    ASSUME Inv, Ready
    PROVE  Inv'
    <1>1. TypeOK'
        BY DEF Inv, Ready, Starting, Steps, containers, volumes, TypeOK
    <1>2. AtRest'
        BY DEF Ready, AtRest, Copying
    <1>3. Acceptance'
        BY DEF Inv, Ready, Acceptance, ServesAccepted, Copying, containers, volumes
    <1>4. Restores'
        BY DEF Inv, Ready, Restores, V21Restored, containers
    <1>5. Disclosed'
        BY DEF Inv, Ready, Disclosed, Copying
    <1>6. Served'
        BY DEF Inv, Ready, Served, volumes
    <1>7. Unfinished'
        BY DEF Inv, Ready, Unfinished, volumes
    <1> QED BY <1>1, <1>2, <1>3, <1>4, <1>5, <1>6, <1>7 DEF Inv

(* The run ends well.                                                      *)
LEMMA FinishKeeps ==
    ASSUME Inv, Finish
    PROVE  Inv'
    <1>1. TypeOK'
        BY UpgradeAssumption DEF Inv, Finish, NoRun, Transcript, Steps, volumes, TypeOK
    <1>2. AtRest'
        BY DEF Finish, AtRest, Copying
    <1>3. Acceptance'
        BY DEF Inv, Finish, Acceptance, ServesAccepted, NoRun, Copying, volumes
    <1>4. Restores'
        BY DEF Finish, Restores, V21Restored
    <1>5. Disclosed'
        BY DEF Finish, Disclosed, NoRun
    <1>6. Served'
        BY DEF Inv, Finish, Served, Recoverable, Transcript, volumes
    <1>7. Unfinished'
        BY DEF Inv, Finish, Unfinished, Disclosed, volumes
    <1> QED BY <1>1, <1>2, <1>3, <1>4, <1>5, <1>6, <1>7 DEF Inv

(* A command fails: on to the catch block.                                 *)
LEMMA FailsKeeps ==
    ASSUME Inv, Fails
    PROVE  Inv'
    <1>1. TypeOK'
        BY UpgradeAssumption DEF Inv, Fails, Steps, containers, volumes, TypeOK
    <1>2. AtRest'
        BY DEF Fails, AtRest, Copying
    <1>3. Acceptance'
        BY DEF Inv, Fails, Acceptance, ServesAccepted, Copying, containers, volumes
    <1>4. Restores'
        BY DEF Inv, Fails, Restores, V21Restored, Copying, Starting, containers
    <1>5. Disclosed'
        BY DEF Inv, Fails, Disclosed, Copying, Starting
    <1>6. Served'
        BY DEF Inv, Fails, Served, Copying, Starting, volumes
    <1>7. Unfinished'
        BY DEF Inv, Fails, Unfinished, Copying, Starting, volumes
    <1> QED BY <1>1, <1>2, <1>3, <1>4, <1>5, <1>6, <1>7 DEF Inv

(* The catch block starts again what the run has stopped.                  *)
LEMMA RestoreKeeps ==
    ASSUME Inv, Restore
    PROVE  Inv'
    <1>1. TypeOK'
        <2>1. v22' \in Container
            <3>1. v22 \in Container
                BY DEF Inv, TypeOK, Container
            <3> QED BY <3>1, ContainerTypes DEF Restore, LeftOfV22
        <2>2. v21' \in {"up", "stopped", "removed"}
            BY DEF Inv, TypeOK, Restore
        <2> QED BY <2>1, <2>2 DEF Inv, Restore, TypeOK, Container, Steps, volumes
    <1>2. AtRest'
        BY DEF Restore, AtRest, Copying
    <1>3. Acceptance'
        BY DEF Inv, Restore, Acceptance, ServesAccepted, None, Copying, volumes, Restartable,
            LeftOfV22
    <1>4. Restores'
        BY DEF Inv, Restore, Restores, V21Restored, Acceptance, None, Restartable, LeftOfV22
    <1>5. Disclosed'
        BY DEF Inv, Restore, Disclosed, Copying
    <1>6. Served'
        BY DEF Inv, Restore, Served, volumes
    <1>7. Unfinished'
        BY DEF Inv, Restore, Unfinished, Acceptance, Unused, None, volumes, Restartable,
            LeftOfV22
    <1> QED BY <1>1, <1>2, <1>3, <1>4, <1>5, <1>6, <1>7 DEF Inv

(* The catch block ends with the transcript.                               *)
LEMMA RecordKeeps ==
    ASSUME Inv, Record
    PROVE  Inv'
    <1>1. TypeOK'
        BY UpgradeAssumption DEF Inv, Record, NoRun, Transcript, Steps, containers, volumes,
            TypeOK
    <1>2. AtRest'
        BY DEF Record, AtRest, Copying
    <1>3. Acceptance'
        BY DEF Inv, Record, Acceptance, ServesAccepted, NoRun, Copying, containers, volumes
    <1>4. Restores'
        BY DEF Record, Restores, V21Restored
    <1>5. Disclosed'
        BY DEF Record, Disclosed, NoRun
    <1>6. Served'
        BY DEF Inv, Record, Served, Recoverable, Transcript, volumes
    <1>7. Unfinished'
        BY DEF Inv, Record, Unfinished, Recoverable, Unused, Transcript, containers, volumes
    <1> QED BY <1>1, <1>2, <1>3, <1>4, <1>5, <1>6, <1>7 DEF Inv

(* A kill loses the context of the run and leaves the rest.                *)
LEMMA KillKeeps ==
    ASSUME Inv, Kill
    PROVE  Inv'
    <1>1. TypeOK'
        BY UpgradeAssumption DEF Inv, Kill, NoRun, Steps, containers, volumes, TypeOK
    <1>2. AtRest'
        BY DEF Kill, AtRest, Copying
    <1>3. Acceptance'
        BY DEF Inv, Kill, Acceptance, ServesAccepted, NoRun, Copying, containers, volumes
    <1>4. Restores'
        BY DEF Kill, Restores, V21Restored
    <1>5. Disclosed'
        BY DEF Kill, Disclosed, NoRun
    <1>6. Served'
        BY DEF Inv, Kill, Served, Disclosed, Recoverable, volumes
    <1>7. Unfinished'
        BY DEF Inv, Kill, Unfinished, TypeOK
    <1> QED BY <1>1, <1>2, <1>3, <1>4, <1>5, <1>6, <1>7 DEF Inv

(* Before the first run V2.1 runs alone.                                   *)
LEMMA InvInit ==
    ASSUME Init PROVE Inv
    <1>1. TypeOK
        <2>1. target \in Volume
            BY UpgradeAssumption DEF Init, Empty, Volume, Stages
        <2>2. v22 \in Container
            BY UpgradeAssumption DEF Init, None, Container
        <2>3. ctx \in Context
            BY ContextTypes, UpgradeAssumption DEF Init, NoRun, Context, Dispositions
        <2>4. transcript \in Report
            BY DEF Init, NoTranscript, Report, Dispositions
        <2> QED BY <2>1, <2>2, <2>3, <2>4, UpgradeAssumption
                DEF Init, TypeOK, Volume, Container, Context, Report, Dispositions, Steps
    <1>2. AtRest /\ Acceptance
        BY UpgradeAssumption
        DEF Init, AtRest, Acceptance, ServesAccepted, Copying, None, NoRun, Empty
    <1>3. Restores /\ Disclosed
        BY DEF Init, Restores, V21Restored, Disclosed, Copying, NoRun
    <1>4. Served /\ Unfinished
        BY DEF Init, Served, Unfinished, Empty, Incomplete
    <1> QED BY <1>1, <1>2, <1>3, <1>4 DEF Inv

(* Every step keeps the invariant.                                         *)
LEMMA InvNext ==
    ASSUME Inv, [Next]_vars PROVE Inv'
    <1>1. CASE Work21
        BY <1>1, Work21Keeps
    <1>2. CASE Work22
        BY <1>2, Work22Keeps
    <1>3. CASE Down
        BY <1>3, DownKeeps
    <1>4. CASE Start
        BY <1>4, StartKeeps
    <1>5. CASE Wait
        BY <1>5, WaitKeeps
    <1>6. CASE Stop22
        BY <1>6, Stop22Keeps
    <1>7. CASE Stop21
        BY <1>7, Stop21Keeps
    <1>8. CASE Port
        BY <1>8, PortKeeps
    <1>9. CASE Reset
        BY <1>9, ResetKeeps
    <1>10. CASE Extract
        BY <1>10, ExtractKeeps
    <1>11. CASE Verify
        BY <1>11, VerifyKeeps
    <1>12. CASE Migrate
        BY <1>12, MigrateKeeps
    <1>13. CASE Accept
        BY <1>13, AcceptKeeps
    <1>14. CASE CheckReused
        BY <1>14, CheckReusedKeeps
    <1>15. CASE Up
        BY <1>15, UpKeeps
    <1>16. CASE Ready
        BY <1>16, ReadyKeeps
    <1>17. CASE Finish
        BY <1>17, FinishKeeps
    <1>18. CASE Fails
        BY <1>18, FailsKeeps
    <1>19. CASE Restore
        BY <1>19, RestoreKeeps
    <1>20. CASE Record
        BY <1>20, RecordKeeps
    <1>21. CASE Kill
        BY <1>21, KillKeeps
    <1>22. CASE UNCHANGED vars
        <2>1. TypeOK'
            BY <1>22 DEF vars, volumes, containers, Inv, TypeOK
        <2>2. AtRest' /\ Acceptance' /\ Restores'
            BY <1>22 DEF vars, volumes, containers, Inv, AtRest, Acceptance, ServesAccepted,
                         Restores, V21Restored
        <2>3. Disclosed' /\ Served' /\ Unfinished'
            BY <1>22 DEF vars, volumes, containers, Inv, Disclosed, Served, Unfinished,
                         Recoverable, Unused
        <2> QED BY <2>1, <2>2, <2>3 DEF Inv
    <1> QED BY <1>1, <1>2, <1>3, <1>4, <1>5, <1>6, <1>7, <1>8, <1>9, <1>10, <1>11, <1>12, <1>13,
        <1>14, <1>15, <1>16, <1>17, <1>18, <1>19, <1>20, <1>21, <1>22 DEF Next

-----------------------------------------------------------------------------
(* The theorems.                                                           *)

(* The invariant holds in every reachable state.                           *)
THEOREM Invariance == Spec => []Inv
    BY InvInit, InvNext, PTL DEF Spec

(* Type correctness of the cutover.                                        *)
THEOREM TypeCorrect == Spec => []TypeOK
    <1>1. Inv => TypeOK
        BY DEF Inv
    <1> QED BY <1>1, Invariance, PTL

(* What V2.2 serves from was verified, migrated and accepted.              *)
THEOREM ServesOnlyAccepted == Spec => []ServesAccepted
    <1>1. Inv => ServesAccepted
        BY DEF Inv, Acceptance
    <1> QED BY <1>1, Invariance, PTL

(* A first cutover that ends in a failure leaves V2.1 running (the catch   *)
(* block), unless a command failed in it.                                  *)
THEOREM V21IsRestored == Spec => []V21Restored
    <1>1. Inv => V21Restored
        BY DEF Inv, Restores
    <1> QED BY <1>1, Invariance, PTL

(* A run copies V2.1's volume only while V2.1 does not run on it           *)
(* (waitForQuiescence, stopProjectApps, waitForPortDisposition).           *)
THEOREM CopiesAtRest == Spec => []CopiedAtRest
    <1>1. Inv => CopiedAtRest
        BY DEF Inv, AtRest, CopiedAtRest
    <1> QED BY <1>1, Invariance, PTL

(* What a failed run leaves unfinished, the next one may remove, as long   *)
(* as no run was killed (isRecoverableV22Transcript).                      *)
THEOREM IncompleteRecoverable == Spec => []IncompleteIsRecoverable
    <1>1. Inv => IncompleteIsRecoverable
        BY DEF Inv, Unfinished, IncompleteIsRecoverable
    <1> QED BY <1>1, Invariance, PTL

(* No run removes a target from which V2.2 has served, unless a run took   *)
(* it for missing and none has found it since: the run that would reset it *)
(* knows of no acceptance, and what served was accepted.                   *)
THEOREM ServedTargetStays == Spec => ServedTargetKept
    <1>1. ASSUME Inv, [Next]_vars, target.served, ~target.missed PROVE target'.served
        <2>1. target \in Volume
            BY <1>1 DEF Inv, TypeOK, Volume
        <2>2. CASE Reset
            BY <1>1, <2>2 DEF Inv, Served, Disclosed, Acceptance, Reset, Copying
        <2>3. CASE Start \/ Extract \/ Verify \/ Migrate \/ Accept \/ Up
            BY <1>1, <2>1, <2>3 DEF Start, Extract, Verify, Migrate, Accept, Up, Volume, volumes
        <2>4. CASE UNCHANGED target
            BY <1>1, <2>4
        <2>5. \/ Reset
              \/ Start \/ Extract \/ Verify \/ Migrate \/ Accept \/ Up
              \/ UNCHANGED target
            BY <1>1 DEF Next, vars, volumes, Work21, Work22, Down, Wait, Stop22, Stop21,
                        Port, CheckReused, Ready, Finish, Fails, Restore, Record, Kill
        <2> QED BY <2>2, <2>3, <2>4, <2>5
    <1>2. Inv /\ [Next]_vars => [target.served /\ ~target.missed => target'.served]_vars
        BY <1>1
    <1> QED BY <1>2, Invariance, PTL DEF Spec, ServedTargetKept
=============================================================================
