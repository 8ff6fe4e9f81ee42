------------------------ MODULE PullRequestIntentProofs ------------------------
(***************************************************************************)
(* What TLAPS proves of PullRequestIntent, for every number of calls, of   *)
(* approvals, of requests on GitHub and of faults: its types, that a task  *)
(* completes over a request that GitHub has merged, that an executing      *)
(* intent has a call that will write its end, and that the service merges  *)
(* over an approval of the base that it found.                             *)
(***************************************************************************)
EXTENDS PullRequestIntent, TLAPS

-----------------------------------------------------------------------------
(* What the phases of a call tell of its other fields, and the newest      *)
(* request of its number.                                                  *)
CallShape ==
    \A c \in Calls :
        /\ call[c].phase = "done" => call[c].pull \in Pulls
        /\ call[c].phase = "moved" => call[c].kind = "create" /\ call[c].base # 0

PullShape == github.number = 0 <=> github.pull = "none"

-----------------------------------------------------------------------------
(* Type correctness.                                                       *)

(* An intent as the integration task creates it is typed.                  *)
LEMMA TypeInit ==
    ASSUME Init PROVE TypeOK /\ CallShape /\ PullShape
    <1> USE PullRequestAssumption DEF Init, Idle
    <1>1. intent \in Intent
        BY DEF Intent, Waiting, Executing, Terminal, Checks
    <1>2. github \in Github
        BY DEF Github, Pulls, Open, Checks
    <1>3. call \in [Calls -> Call]
        BY DEF Call, Kinds, Phases, Pulls, Open, Checks
    <1>4. CallShape
        BY DEF CallShape
    <1>5. hooks \subseteq PullHook \cup CheckHook /\ PullShape
        BY DEF PullShape
    <1>6. acts \in 0..MaxActs /\ faults \in 0..MaxFaults
        OBVIOUS
    <1> QED BY <1>1, <1>2, <1>3, <1>4, <1>5, <1>6 DEF TypeOK

(* What happens to the newest request on GitHub.                           *)
LEMMA PullTypes ==
    ASSUME TypeOK, NEW n \in 1..MaxPulls, NEW q \in Pulls, Pull(n, q)
    PROVE  /\ github' \in Github
           /\ hooks' \subseteq PullHook \cup CheckHook
           /\ PullShape'
    <1>1. github \in Github /\ n \in 0..MaxPulls
        BY DEF TypeOK
    <1>2. github' \in Github
        <2>1. (IF q = "merged" THEN github.merged \cup {n} ELSE github.merged) \in SUBSET (1..MaxPulls)
            BY <1>1 DEF Github
        <2>2. (IF q = "merged" THEN github.base + 1 ELSE github.base) \in Nat \ {0}
            BY <1>1 DEF Github
        <2> QED BY <1>1, <2>1, <2>2 DEF Pull, Github
    <1>3. Pulled(n, q) \in PullHook
        BY <1>1 DEF Pulled, PullHook
    <1>4. github'.number = n /\ github'.pull = q
        BY <1>1 DEF Pull, Github
    <1>5. PullShape'
        BY <1>4 DEF PullShape, Pulls, Open
    <1> QED BY <1>2, <1>3, <1>5 DEF Pull, TypeOK

(* The record that a step leaves behind for its call.                      *)
LEMMA CallUpdate ==
    ASSUME TypeOK, CallShape, NEW c \in Calls, NEW r \in Call,
           r.phase = "done" => r.pull \in Pulls,
           r.phase = "moved" => r.kind = "create" /\ r.base # 0,
           call' = [call EXCEPT ![c] = r]
    PROVE  call' \in [Calls -> Call] /\ CallShape'
    BY DEF TypeOK, CallShape

(* The three ways in which a step leaves the record of a call: it ends,    *)
LEMMA EndsTypes ==
    ASSUME TypeOK, CallShape, NEW c \in Calls, Ends(c)
    PROVE  call' \in [Calls -> Call] /\ CallShape'
    <1>1. Idle \in Call /\ Idle.phase = "idle"
        BY PullRequestAssumption DEF Call, Idle, Phases, Kinds, Pulls, Open, Checks
    <1> QED BY <1>1, CallUpdate DEF Ends

(* A call that has ended its work on GitHub keeps only its kind.           *)
LEMMA SettledCall ==
    ASSUME NEW k \in Kinds \cup {"none"}, NEW p \in {"uncertain", "rejected", "completed"}
    PROVE  /\ [Idle EXCEPT !.kind = k, !.phase = p] \in Call
           /\ [Idle EXCEPT !.kind = k, !.phase = p].phase = p
           /\ [Idle EXCEPT !.kind = k, !.phase = p].kind = k
    <1> DEFINE r == [Idle EXCEPT !.kind = k, !.phase = p]
    <1>1. p \in Phases /\ 0 \in 0..MaxPulls /\ "none" \in Checks
        BY PullRequestAssumption DEF Phases, Checks
    <1>2. r \in Call
        BY <1>1 DEF Call, Idle
    <1>3. r.phase = p
        BY DEF Idle
    <1>4. r.kind = k
        BY DEF Idle
    <1> QED BY <1>2, <1>3, <1>4

(* ... it settles as failed or completed,                                  *)
LEMMA SettlesTypes ==
    ASSUME TypeOK, CallShape, NEW c \in Calls,
           NEW p \in {"uncertain", "rejected", "completed"}, Settles(c, p)
    PROVE  call' \in [Calls -> Call] /\ CallShape'
    <1>1. PICK k \in Kinds \cup {"none"} : k = call[c].kind
        BY DEF TypeOK, Call
    <1> DEFINE r == [Idle EXCEPT !.kind = k, !.phase = p]
    <1>2. r \in Call /\ r.phase = p
        BY SettledCall
    <1>3. call' = [call EXCEPT ![c] = r]
        BY <1>1 DEF Settles
    <1> QED BY <1>2, <1>3, CallUpdate

(* ... or it holds an answer of GitHub.                                    *)
LEMMA AnsweredTypes ==
    ASSUME TypeOK, CallShape, NEW c \in Calls, NEW k \in Kinds \cup {"none"},
           NEW n \in 0..MaxPulls, NEW q \in Pulls, Answered(c, k, n, q)
    PROVE  call' \in [Calls -> Call] /\ CallShape'
    <1> DEFINE r == [Idle EXCEPT !.kind = k, !.phase = "done", !.number = n, !.pull = q,
                                 !.checks = github.checks]
    <1>1. github.checks \in Checks
        BY DEF TypeOK, Github
    <1>2. r \in Call
        BY <1>1 DEF Call, Idle, Phases
    <1>3. r.phase = "done" /\ r.pull = q
        BY DEF Idle
    <1> QED BY <1>2, <1>3, CallUpdate DEF Answered

(* The record of a call whose intent, number and base are typed.           *)
LEMMA CallFields ==
    ASSUME TypeOK, NEW c \in Calls
    PROVE  /\ call[c] \in Call
           /\ call[c].kind \in Kinds \cup {"none"}
           /\ call[c].number \in 0..MaxPulls
           /\ call[c].pull \in Pulls \cup {"none"}
           /\ call[c].checks \in Checks
           /\ call[c].base \in Nat /\ call[c].revision \in Nat
    BY DEF TypeOK, Call

(* What an approval writes is an intent.                                   *)
LEMMA ApprovedType ==
    ASSUME TypeOK, NEW a \in {"create", "merge"}, Approved(a)
    PROVE  intent' \in Intent
    <1>1. intent \in Intent
        BY DEF TypeOK
    <1>2. Approval(a) \in [action : {"create", "merge"}, revision : Nat, base : Nat]
        BY <1>1 DEF Approval, Intent
    <1>3. intent.approvals \cup {Approval(a)}
              \in SUBSET [action : {"create", "merge"}, revision : Nat, base : Nat]
        BY <1>1, <1>2 DEF Intent
    <1>4. (IF a = "create" THEN "create_approved" ELSE "merge_approved")
              \in Waiting \cup Executing \cup Terminal
        BY DEF Waiting
    <1>5. intent.revision + 1 \in Nat \ {0}
        BY <1>1 DEF Intent
    <1> QED BY <1>1, <1>3, <1>4, <1>5 DEF Approved, Intent

(* So is what a run of the delivery policy's commands writes.              *)
LEMMA CheckLocallyType ==
    ASSUME TypeOK, CheckLocally PROVE intent' \in Intent
    BY DEF TypeOK, CheckLocally, Intent, Checks

(* The bound on faults is kept.                                            *)
LEMMA FaultType == ASSUME TypeOK, Fault PROVE faults' \in 0..MaxFaults
    BY PullRequestAssumption DEF TypeOK, Fault

(* A request to GitHub took effect, whether or not its answer arrived.     *)
LEMMA DeliveredTypes ==
    ASSUME TypeOK, CallShape, NEW c \in Calls, NEW n \in 0..MaxPulls, NEW q \in Pulls,
           Delivered(c, n, q) \/ Refused(c)
    PROVE  call' \in [Calls -> Call] /\ CallShape' /\ faults' \in 0..MaxFaults
    <1>1. CASE Answered(c, call[c].kind, n, q) /\ UNCHANGED faults
        BY <1>1, CallFields, AnsweredTypes DEF TypeOK
    <1>2. CASE Unanswered(c) \/ Refused(c)
        BY <1>2, SettlesTypes, FaultType DEF Unanswered, Refused
    <1> QED BY <1>1, <1>2 DEF Delivered

(* What is learnt of a request on GitHub never makes an intent executing.  *)
LEMMA StatusOfType ==
    ASSUME NEW q \in Pulls
    PROVE  /\ StatusOf(q) \in Waiting \cup Terminal
           /\ StatusOf(q) \notin Executing
           /\ StatusOf(q) = "merged" => q = "merged"
    BY DEF StatusOf, Pulls, Open, Waiting, Terminal, Executing

Shaped == TypeOK /\ CallShape /\ PullShape

(* Every step keeps the types and the shape of calls and requests.         *)
LEMMA TypeNext == ASSUME Shaped, Next PROVE Shaped'
    <1> USE DEF Shaped
    <1>a. intent \in Intent /\ github \in Github
        BY DEF TypeOK
    <1>1. CASE ApproveCreate
        <2>1. intent' \in Intent
            BY <1>1, ApprovedType DEF ApproveCreate
        <2> QED BY <1>1, <2>1 DEF ApproveCreate, Unchanged, TypeOK, CallShape, PullShape
    <1>2. CASE Revoke
        <2>1. intent' \in Intent
            <3>1. intent.revision + 1 \in Nat \ {0} /\ "revoked" \in Waiting \cup Executing \cup Terminal
                BY <1>a DEF Intent, Terminal
            <3> QED BY <1>2, <1>a, <3>1 DEF Revoke, Intent
        <2> QED BY <1>2, <2>1 DEF Revoke, Unchanged, TypeOK, CallShape, PullShape
    <1>3. ASSUME NEW c \in Calls, EnsureChecks(c) PROVE Shaped'
        <2> DEFINE r == [Idle EXCEPT !.kind = "approve", !.phase = "ensured",
                                     !.revision = intent.revision]
        <2>1. intent' \in Intent
            <3>1. CASE UNCHANGED intent
                BY <1>a, <3>1
            <3>2. CASE CheckLocally
                BY <3>2, CheckLocallyType
            <3> QED BY <1>3, <3>1, <3>2 DEF EnsureChecks
        <2>2. 0 \in 0..MaxPulls /\ "none" \in Checks /\ intent.revision \in Nat
            BY <1>a, PullRequestAssumption DEF Checks, Intent
        <2>3. r \in Call
            BY <2>2 DEF Call, Idle, Kinds, Phases
        <2>4. r.phase = "ensured"
            BY DEF Idle
        <2>5. call' \in [Calls -> Call] /\ CallShape'
            BY <1>3, <2>3, <2>4, CallUpdate DEF EnsureChecks
        <2> QED BY <1>3, <2>1, <2>5 DEF EnsureChecks, Unchanged, TypeOK, PullShape
    <1>4. ASSUME NEW c \in Calls, ApproveMerge(c) PROVE Shaped'
        <2>1. intent' \in Intent
            BY <1>4, <1>a, ApprovedType DEF ApproveMerge
        <2>2. call' \in [Calls -> Call] /\ CallShape'
            BY <1>4, EndsTypes DEF ApproveMerge
        <2> QED BY <1>4, <2>1, <2>2 DEF ApproveMerge, Unchanged, TypeOK, PullShape
    <1>5. ASSUME NEW c \in Calls, NEW a \in {"create", "merge"}, Prepare(c, a) PROVE Shaped'
        <2> DEFINE r == [Idle EXCEPT !.kind = a, !.phase = "prepared"]
        <2>1. intent' \in Intent
            BY <1>5, <1>a DEF Prepare, Intent, Executing
        <2>2. 0 \in 0..MaxPulls /\ "none" \in Checks /\ a \in Kinds
            BY PullRequestAssumption DEF Checks, Kinds
        <2>3. r \in Call
            BY <2>2 DEF Call, Idle, Phases
        <2>4. r.phase = "prepared"
            BY DEF Idle
        <2>5. call' \in [Calls -> Call] /\ CallShape'
            BY <1>5, <2>3, <2>4, CallUpdate DEF Prepare
        <2> QED BY <1>5, <2>1, <2>5 DEF Prepare, Unchanged, TypeOK, PullShape
    <1>6. ASSUME NEW c \in Calls, CheckRefs(c) PROVE Shaped'
        <2>1. call' \in [Calls -> Call] /\ CallShape'
            <3>1. PICK k \in Kinds \cup {"none"} : k = call[c].kind
                BY CallFields
            <3> DEFINE r == [Idle EXCEPT !.kind = k, !.phase = "checked",
                                         !.base = github.base, !.number = intent.number]
                       m == [Idle EXCEPT !.kind = "create", !.phase = "moved", !.base = github.base]
            <3>2. 0 \in 0..MaxPulls /\ "none" \in Checks /\ github.base \in Nat
                  /\ intent.number \in 0..MaxPulls
                BY <1>a, PullRequestAssumption DEF Checks, Github, Intent
            <3>3. r \in Call /\ m \in Call
                BY <3>2 DEF Call, Idle, Phases, Kinds
            <3>4. r.phase = "checked" /\ m.phase = "moved" /\ m.kind = "create" /\ m.base # 0
                BY <1>a DEF Idle, Github
            <3>5. CASE call' = [call EXCEPT ![c] = r]
                BY <3>3, <3>4, <3>5, CallUpdate
            <3>6. CASE call' = [call EXCEPT ![c] = m]
                BY <3>3, <3>4, <3>6, CallUpdate
            <3>7. CASE Settles(c, "rejected")
                BY <3>7, SettlesTypes
            <3> QED BY <1>6, <3>1, <3>5, <3>6, <3>7 DEF CheckRefs
        <2> QED BY <1>6, <2>1 DEF CheckRefs, Remote, TypeOK, PullShape
    <1>7. ASSUME NEW c \in Calls, RequestFails(c) PROVE Shaped'
        <2>1. call' \in [Calls -> Call] /\ CallShape' /\ faults' \in 0..MaxFaults
            BY <1>7, SettlesTypes, FaultType DEF RequestFails, Unanswered, Refused
        <2> QED BY <1>7, <2>1 DEF RequestFails, Remote, TypeOK, PullShape
    <1>8. ASSUME NEW c \in Calls, OpenPull(c) PROVE Shaped'
        <2>1. CASE /\ github.pull \in Open /\ UNCHANGED <<github, hooks>>
                   /\ Delivered(c, github.number, github.pull) \/ Refused(c)
            <3>1. github.number \in 0..MaxPulls /\ github.pull \in Pulls
                BY <2>1, <1>a DEF Github, Pulls
            <3> QED BY <1>8, <2>1, <3>1, DeliveredTypes DEF OpenPull, Remote, TypeOK, PullShape
        <2>2. CASE /\ github.number < MaxPulls
                   /\ Pull(github.number + 1, "draft")
                   /\ Delivered(c, github.number + 1, "draft") \/ Refused(c)
            <3>1. github.number + 1 \in 1..MaxPulls /\ github.number + 1 \in 0..MaxPulls
                BY <2>2, <1>a, PullRequestAssumption DEF Github
            <3>2. "draft" \in Pulls
                BY DEF Pulls, Open
            <3>3. github' \in Github /\ hooks' \subseteq PullHook \cup CheckHook /\ PullShape'
                BY <2>2, <3>1, <3>2, PullTypes
            <3>4. call' \in [Calls -> Call] /\ CallShape' /\ faults' \in 0..MaxFaults
                BY <2>2, <3>1, <3>2, DeliveredTypes
            <3> QED BY <1>8, <3>3, <3>4 DEF OpenPull, Remote, TypeOK
        <2>3. CASE Settles(c, "rejected") /\ UNCHANGED <<github, hooks, faults>>
            <3>1. call' \in [Calls -> Call] /\ CallShape'
                BY <2>3, SettlesTypes
            <3> QED BY <1>8, <2>3, <3>1 DEF OpenPull, Remote, TypeOK, PullShape
        <2> QED BY <1>8, <2>1, <2>2, <2>3 DEF OpenPull
    <1>9. ASSUME NEW c \in Calls, NEW q \in {"draft", "ready"}, IsPull(c, {q})
          PROVE  github.number \in 1..MaxPulls /\ github.number \in 0..MaxPulls
        BY <1>9, <1>a DEF IsPull, Github, PullShape
    <1>10. ASSUME NEW c \in Calls, Goes(c, "mergeable") PROVE call' \in [Calls -> Call] /\ CallShape'
        <2>1. PICK r \in Call : r = [call[c] EXCEPT !.phase = "mergeable"]
            BY CallFields DEF Call, Phases
        <2>2. r.phase = "mergeable"
            BY <2>1, CallFields DEF Call
        <2> QED BY <1>10, <2>1, <2>2, CallUpdate DEF Goes
    <1>11. ASSUME NEW c \in Calls, ReadyPull(c) PROVE Shaped'
        <2>1. CASE Settles(c, "rejected") /\ UNCHANGED <<github, hooks, faults>>
            <3>1. call' \in [Calls -> Call] /\ CallShape'
                BY <2>1, SettlesTypes
            <3> QED BY <1>11, <2>1, <3>1 DEF ReadyPull, Remote, TypeOK, PullShape
        <2>2. CASE /\ IsPull(c, {"draft"}) /\ Pull(github.number, "ready")
                   /\ \/ Goes(c, "mergeable") /\ UNCHANGED faults
                      \/ Unanswered(c)
            <3>1. "ready" \in Pulls
                BY DEF Pulls, Open
            <3>2. github' \in Github /\ hooks' \subseteq PullHook \cup CheckHook /\ PullShape'
                BY <2>2, <3>1, <1>9, PullTypes
            <3>3. call' \in [Calls -> Call] /\ CallShape'
                BY <2>2, <1>10, SettlesTypes DEF Unanswered
            <3>4. faults' \in 0..MaxFaults
                BY <2>2, FaultType DEF TypeOK, Unanswered
            <3> QED BY <1>11, <3>2, <3>3, <3>4 DEF ReadyPull, Remote, TypeOK
        <2>3. CASE Goes(c, "mergeable") /\ UNCHANGED <<github, hooks, faults>>
            <3>1. call' \in [Calls -> Call] /\ CallShape'
                BY <2>3, <1>10
            <3> QED BY <1>11, <2>3, <3>1 DEF ReadyPull, Remote, TypeOK, PullShape
        <2> QED BY <1>11, <2>1, <2>2, <2>3 DEF ReadyPull
    <1>12. ASSUME NEW c \in Calls, MergePull(c) PROVE Shaped'
        <2>1. CASE /\ IsPull(c, {"ready"}) /\ Pull(github.number, "merged")
                   /\ Delivered(c, github.number, "merged")
            <3>1. "merged" \in Pulls
                BY DEF Pulls
            <3>2. github' \in Github /\ hooks' \subseteq PullHook \cup CheckHook /\ PullShape'
                BY <2>1, <3>1, <1>9, PullTypes
            <3>3. call' \in [Calls -> Call] /\ CallShape' /\ faults' \in 0..MaxFaults
                BY <2>1, <3>1, <1>9, DeliveredTypes
            <3> QED BY <1>12, <3>2, <3>3 DEF MergePull, Remote, TypeOK
        <2>2. CASE Settles(c, "uncertain") /\ UNCHANGED <<github, hooks, faults>>
            <3>1. call' \in [Calls -> Call] /\ CallShape'
                BY <2>2, SettlesTypes
            <3> QED BY <1>12, <2>2, <3>1 DEF MergePull, Remote, TypeOK, PullShape
        <2> QED BY <1>12, <2>1, <2>2 DEF MergePull
    <1>13. ASSUME NEW c \in Calls, Complete(c) PROVE Shaped'
        <2>1. intent' \in Intent
            <3>1. PICK n \in 0..MaxPulls, s \in Checks : n = call[c].number /\ s = call[c].checks
                BY CallFields
            <3> DEFINE status == IF call[c].pull = "ready" THEN "ready" ELSE "draft_open"
                       items == IF HasChecks THEN s ELSE "none"
                       kept == IF HasChecks THEN "passed" ELSE intent.items
            <3>2. "passed" \in Checks /\ items \in Checks /\ kept \in Checks
                BY <1>a DEF Checks, Intent
            <3>3. intent.revision + 1 \in Nat \ {0}
                BY <1>a DEF Intent
            <3>4. /\ status \in Waiting \cup Executing \cup Terminal
                  /\ "merged" \in Waiting \cup Executing \cup Terminal
                BY DEF Waiting, Terminal
            <3>5. \/ intent' = [intent EXCEPT !.status = status, !.number = n, !.checks = s,
                          !.items = items, !.action = "none", !.revision = intent.revision + 1]
                  \/ intent' = [intent EXCEPT !.status = "merged", !.checks = "passed",
                          !.items = kept, !.action = "none", !.revision = intent.revision + 1]
                  \/ intent' = intent
                BY <1>13, <1>a, <3>1 DEF Complete, Intent
            <3> HIDE DEF status, items, kept
            <3> QED BY <1>a, <3>2, <3>3, <3>4, <3>5 DEF Intent
        <2>2. call' \in [Calls -> Call] /\ CallShape'
            BY <1>13, SettlesTypes DEF Complete
        <2> QED BY <1>13, <2>1, <2>2 DEF Complete, Unchanged, TypeOK, PullShape
    <1>14. ASSUME NEW c \in Calls, RefreshBase(c) PROVE Shaped'
        <2>1. intent' \in Intent
            <3>1. intent.revision + 1 \in Nat \ {0}
                BY <1>a DEF Intent
            <3>2. PICK b \in Nat \ {0} : b = call[c].base
                BY <1>14, CallFields DEF RefreshBase, CallShape
            <3>3. \/ intent' = [intent EXCEPT !.base = b, !.status = "proposed",
                                     !.action = "none", !.revision = intent.revision + 1]
                  \/ intent' = intent
                BY <1>14, <1>a, <3>2 DEF RefreshBase, Intent
            <3> QED BY <1>a, <3>1, <3>2, <3>3 DEF Intent, Waiting
        <2>2. call' \in [Calls -> Call] /\ CallShape'
            BY <1>14, EndsTypes DEF RefreshBase
        <2> QED BY <1>14, <2>1, <2>2 DEF RefreshBase, Unchanged, TypeOK, PullShape
    <1>15. ASSUME NEW c \in Calls, Fail(c) PROVE Shaped'
        <2>1. intent' \in Intent
            BY <1>15, <1>a DEF Fail, Intent, Waiting
        <2>2. call' \in [Calls -> Call] /\ CallShape'
            BY <1>15, EndsTypes DEF Fail
        <2> QED BY <1>15, <2>1, <2>2 DEF Fail, Unchanged, TypeOK, PullShape
    <1>16. ASSUME NEW c \in Calls, Advance(c) PROVE Shaped'
        <2>1. intent' \in Intent
            BY <1>16, <1>a, CheckLocallyType DEF Advance, RecoverChecks
        <2>2. call' \in [Calls -> Call] /\ CallShape'
            BY <1>16, EndsTypes DEF Advance, TypeOK, CallShape
        <2>3. task' \in {"awaiting_human", "completed"} /\ line' \in {"integrating", "merged"}
            BY <1>16 DEF Advance, Integrate, TypeOK
        <2> QED BY <1>16, <2>1, <2>2, <2>3 DEF Advance, TypeOK, PullShape
    <1>17. ASSUME NEW c \in Calls, ReadSnapshot(c) PROVE Shaped'
        <2>1. intent.number \in 0..MaxPulls /\ "reconcile" \in Kinds \cup {"none"}
            BY <1>a DEF Intent, Kinds
        <2>2. (IF intent.number = github.number THEN github.pull
               ELSE IF intent.number \in github.merged THEN "merged" ELSE "closed") \in Pulls
            BY <1>17, <1>a DEF ReadSnapshot, PullShape, Github, Pulls
        <2>3. call' \in [Calls -> Call] /\ CallShape'
            BY <1>17, <2>1, <2>2, AnsweredTypes DEF ReadSnapshot
        <2> QED BY <1>17, <2>3 DEF ReadSnapshot, Remote, TypeOK, PullShape
    <1>18. ASSUME NEW c \in Calls, ApplySnapshot(c) PROVE Shaped'
        <2>1. intent' \in Intent
            <3>1. PICK n \in 0..MaxPulls, s \in Checks, q \in Pulls :
                      n = call[c].number /\ s = call[c].checks /\ q = call[c].pull
                BY <1>18, CallFields DEF ApplySnapshot, At, CallShape
            <3> DEFINE seen == [intent EXCEPT !.status = StatusOf(q), !.number = n, !.checks = s]
            <3>2. seen \in Intent
                BY <1>a, StatusOfType DEF Intent
            <3>3. intent' = [seen EXCEPT !.revision =
                      IF seen.status = intent.status /\ seen.checks = intent.checks THEN @ ELSE @ + 1]
                BY <1>18, <3>1 DEF ApplySnapshot
            <3> HIDE DEF seen
            <3> QED BY <3>2, <3>3 DEF Intent
        <2>2. call' \in [Calls -> Call] /\ CallShape'
            BY <1>18, EndsTypes DEF ApplySnapshot
        <2> QED BY <1>18, <2>1, <2>2 DEF ApplySnapshot, Unchanged, TypeOK, PullShape
    <1>19. ASSUME NEW h \in hooks, Webhook(h) PROVE Shaped'
        <2>1. hooks' \subseteq PullHook \cup CheckHook
            BY <1>19 DEF Webhook, TypeOK
        <2>2. intent' \in Intent
            <3>1. CASE h \in PullHook
                <4>1. PICK n \in 0..MaxPulls, q \in Pulls :
                          n = h.number /\ q = h.result /\ h.event = "pull_request"
                    BY <3>1 DEF PullHook
                <4>2. StatusOf(q) \in Waiting \cup Terminal
                    BY StatusOfType
                <4> QED BY <1>19, <1>a, <4>1, <4>2 DEF Webhook, Intent
            <3>2. CASE h \in CheckHook
                BY <1>19, <1>a, <3>2 DEF Webhook, CheckHook, Intent
            <3> QED BY <3>1, <3>2 DEF TypeOK
        <2>3. line' \in {"integrating", "merged"}
            BY <1>19 DEF Webhook, TypeOK
        <2> QED BY <1>19, <2>1, <2>2, <2>3 DEF Webhook, TypeOK, PullShape, CallShape
    <1>20. CASE Resume
        <2>1. intent' \in Intent
            BY <1>20, <1>a, CheckLocallyType DEF Resume, RecoverChecks
        <2>2. task' \in {"awaiting_human", "completed"} /\ line' \in {"integrating", "merged"}
            BY <1>20 DEF Resume, Integrate, TypeOK
        <2> QED BY <1>20, <2>1, <2>2 DEF Resume, TypeOK, PullShape, CallShape
    <1>21. CASE ByHand
        <2>1. github' \in Github /\ hooks' \subseteq PullHook \cup CheckHook /\ PullShape'
            <3>1. ASSUME NEW q \in Pulls, Handled(q), Pull(github.number, q)
                  PROVE  github' \in Github /\ hooks' \subseteq PullHook \cup CheckHook /\ PullShape'
                <4>1. github.number \in 1..MaxPulls
                    BY <1>a, <3>1 DEF Handled, PullShape, Github
                <4> QED BY <3>1, <4>1, PullTypes
            <3>2. CASE Pull(1, "ready")
                <4>1. 1 \in 1..MaxPulls /\ "ready" \in Pulls
                    BY PullRequestAssumption DEF Pulls, Open
                <4> QED BY <3>2, <4>1, PullTypes
            <3>3. CASE github' = [github EXCEPT !.base = @ + 1] /\ UNCHANGED hooks
                BY <1>a, <3>3 DEF Github, PullShape, TypeOK
            <3>4. ASSUME NEW s \in {"pending", "passed", "failed"},
                         github' = [github EXCEPT !.checks = s],
                         hooks' = hooks \cup {Checked("check_run", s), Checked("check_suite", s)}
                  PROVE  github' \in Github /\ hooks' \subseteq PullHook \cup CheckHook /\ PullShape'
                <4>1. /\ {Checked("check_run", s), Checked("check_suite", s)} \subseteq CheckHook
                      /\ s \in Checks \ {"none"}
                    BY DEF Checked, CheckHook, Checks
                <4>2. github' \in Github /\ github'.number = github.number /\ github'.pull = github.pull
                    BY <1>a, <3>4, <4>1 DEF Github
                <4> QED BY <3>4, <4>1, <4>2 DEF PullShape, TypeOK
            <3> QED BY <1>21, <3>1, <3>2, <3>3, <3>4 DEF ByHand
        <2>2. acts' \in 0..MaxActs
            BY <1>21, PullRequestAssumption DEF ByHand, TypeOK
        <2> QED BY <1>21, <2>1, <2>2 DEF ByHand, TypeOK, CallShape
    <1>22. CASE Expire
        <2>1. acts' \in 0..MaxActs
            BY <1>22, PullRequestAssumption DEF Expire, TypeOK
        <2> QED BY <1>22, <2>1 DEF Expire, TypeOK, PullShape, CallShape
    <1>23. CASE Restart
        <2>1. intent' \in Intent
            <3>1. RecoveredStatus \in Waiting \cup Executing \cup Terminal
                BY <1>a DEF RecoveredStatus, Waiting, Terminal, Intent
            <3> QED BY <1>23, <1>a, <3>1 DEF Restart, Intent
        <2>2. Idle \in Call /\ Idle.phase = "idle"
            BY PullRequestAssumption DEF Call, Idle, Phases, Kinds, Pulls, Open, Checks
        <2>3. call' \in [Calls -> Call] /\ CallShape'
            BY <1>23, <2>2 DEF Restart, CallShape
        <2>4. faults' \in 0..MaxFaults
            BY <1>23, FaultType DEF Restart
        <2> QED BY <1>23, <2>1, <2>3, <2>4 DEF Restart, TypeOK, PullShape
    <1> QED BY <1>1, <1>2, <1>3, <1>4, <1>5, <1>6, <1>7, <1>8, <1>11, <1>12, <1>13, <1>14, <1>15,
               <1>16, <1>17, <1>18, <1>19, <1>20, <1>21, <1>22, <1>23 DEF Next, Execute

(* Every behaviour stays in its types.                                     *)
THEOREM TypeCorrect == Spec => []TypeOK
    <1>1. Init => Shaped
        BY TypeInit DEF Shaped
    <1>2. Shaped /\ [Next]_vars => Shaped'
        BY TypeNext DEF vars, Shaped, TypeOK, CallShape, PullShape
    <1>3. Shaped => TypeOK
        BY DEF Shaped
    <1> QED BY <1>1, <1>2, <1>3, PTL DEF Spec

-----------------------------------------------------------------------------
(* The inductive invariant.                                                *)

(* Whoever says that the request is merged has it from GitHub: a webhook,  *)
(* the answer that a call holds, a finished merge, and the intent.         *)
Merged == github.merged # {}
SaysMerged(r) == r.pull = "merged" \/ (r.kind = "merge" /\ r.phase = "done")

MergeKnown ==
    /\ github.pull = "merged" => Merged
    /\ \A h \in hooks : h.event = "pull_request" /\ h.result = "merged" => Merged
    /\ \A c \in Calls : SaysMerged(call[c]) => Merged
    /\ intent.status = "merged" => Merged

(* The call that is at an executing intent has its end to write, and one   *)
(* that found the base moved has a base to write that differs.             *)
Busy(r) ==
    /\ r.kind = intent.action
    /\ r.phase \notin {"idle", "ensured", "completed"}
    /\ r.phase = "moved" => r.base # intent.base

InFlight ==
    /\ intent.status = "creating_pr" => intent.action = "create"
    /\ intent.status = "merging_pr" => intent.action = "merge"
    /\ intent.status \in Executing => \E c \in Calls : Busy(call[c])

-----------------------------------------------------------------------------
(* Approvals and merged requests are never forgotten.                      *)

(* GitHub keeps what it has merged.                                        *)
LEMMA PullGrows ==
    ASSUME TypeOK, NEW n, NEW q, Pull(n, q)
    PROVE  /\ github.merged \subseteq github'.merged
           /\ github'.pull = q
           /\ q = "merged" => github'.merged # {}
    <1> DEFINE merged == IF q = "merged" THEN github.merged \cup {n} ELSE github.merged
    <1>1. github'.merged = merged
        BY DEF Pull, TypeOK, Github
    <1>2. github'.pull = q
        BY DEF Pull, TypeOK, Github
    <1> QED BY <1>1, <1>2

(* No step takes a merge or an approval back.                              *)
LEMMA Grows ==
    ASSUME TypeOK, Next
    PROVE  /\ github.merged \subseteq github'.merged
           /\ intent.approvals \subseteq intent'.approvals
    <1>a. intent \in Intent /\ github \in Github
        BY DEF TypeOK
    <1>1. github.merged \subseteq github'.merged
        <2>1. \/ UNCHANGED github
              \/ \E n \in Int, q \in Pulls \cup {"draft", "ready", "merged"} : Pull(n, q)
              \/ github' = [github EXCEPT !.base = github.base + 1]
              \/ \E s \in {"pending", "passed", "failed"} : github' = [github EXCEPT !.checks = s]
            <3>1. github.number \in Int /\ github.number + 1 \in Int /\ 1 \in Int
                BY <1>a, PullRequestAssumption DEF Github
            <3>2. CASE ByHand
                BY <3>1, <3>2 DEF ByHand
            <3>3. ASSUME NEW c \in Calls, Execute(c) PROVE <2>1!1 \/ <2>1!2
                BY <3>1, <3>3 DEF Execute, CheckRefs, RequestFails, OpenPull, ReadyPull, MergePull,
                    Complete, RefreshBase, Fail, Advance, Remote, Unchanged
            <3> QED BY <3>2, <3>3 DEF Next, ApproveCreate, Revoke, EnsureChecks, ApproveMerge,
                    Prepare, ReadSnapshot, ApplySnapshot, Webhook, Resume, Expire, Restart, Remote,
                    Unchanged
        <2> QED BY <1>a, <2>1, PullGrows DEF Github
    <1>2. intent.approvals \subseteq intent'.approvals
        <2>1. ASSUME NEW a, Approved(a) PROVE <1>2
            BY <1>a, <2>1 DEF Approved, Intent
        <2>2. CASE CheckLocally
            BY <1>a, <2>2 DEF CheckLocally, Intent
        <2>3. CASE ApproveCreate
            BY <2>1, <2>3 DEF ApproveCreate
        <2>4. CASE Revoke
            BY <1>a, <2>4 DEF Revoke, Intent
        <2>5. ASSUME NEW c \in Calls, EnsureChecks(c) PROVE <1>2
            BY <2>2, <2>5 DEF EnsureChecks
        <2>6. ASSUME NEW c \in Calls, ApproveMerge(c) PROVE <1>2
            BY <2>1, <2>6 DEF ApproveMerge
        <2>7. ASSUME NEW c \in Calls, NEW a, Prepare(c, a) PROVE <1>2
            BY <1>a, <2>7 DEF Prepare, Intent
        <2>8. ASSUME NEW c \in Calls, Complete(c) PROVE <1>2
            BY <1>a, <2>8 DEF Complete, Intent
        <2>9. ASSUME NEW c \in Calls, RefreshBase(c) PROVE <1>2
            BY <1>a, <2>9 DEF RefreshBase, Intent
        <2>10. ASSUME NEW c \in Calls, Fail(c) PROVE <1>2
            BY <1>a, <2>10 DEF Fail, Intent
        <2>11. ASSUME NEW c \in Calls, Advance(c) PROVE <1>2
            BY <2>2, <2>11 DEF Advance, RecoverChecks
        <2>12. ASSUME NEW c \in Calls, ApplySnapshot(c) PROVE <1>2
            BY <1>a, <2>12 DEF ApplySnapshot, Intent
        <2>13. ASSUME NEW h \in hooks, Webhook(h) PROVE <1>2
            BY <1>a, <2>13 DEF Webhook, Intent
        <2>14. CASE Resume
            BY <2>2, <2>14 DEF Resume, RecoverChecks
        <2>15. CASE Restart
            BY <1>a, <2>15 DEF Restart, Intent
        <2> QED BY <2>3, <2>4, <2>5, <2>6, <2>7, <2>8, <2>9, <2>10, <2>11, <2>12, <2>13, <2>14, <2>15
                DEF Next, Execute, CheckRefs, RequestFails, OpenPull, ReadyPull, MergePull,
                    ReadSnapshot, ByHand, Expire, Remote
    <1> QED BY <1>1, <1>2

-----------------------------------------------------------------------------
(* A task completes over a merged request.                                 *)

(* A step that changes one call keeps what the calls know, when the record *)
(* it writes knows no more.                                                *)
LEMMA CallKnows ==
    ASSUME Shaped, MergeKnown, NEW c \in Calls, NEW r, SaysMerged(r) => Merged',
           Merged => Merged', call' = [call EXCEPT ![c] = r]
    PROVE  \A d \in Calls : SaysMerged(call'[d]) => Merged'
    BY DEF Shaped, TypeOK, MergeKnown

(* The end of a call, and the end of its work on GitHub, know nothing.     *)
LEMMA SettledSilent ==
    ASSUME NEW k, NEW p \in {"uncertain", "rejected", "completed"}
    PROVE  ~SaysMerged(Idle) /\ ~SaysMerged([Idle EXCEPT !.kind = k, !.phase = p])
    <1> DEFINE r == [Idle EXCEPT !.kind = k, !.phase = p]
    <1>1. r.pull = "none" /\ r.phase = p
        BY DEF Idle
    <1>2. Idle.pull = "none" /\ Idle.phase = "idle"
        BY DEF Idle
    <1> QED BY <1>1, <1>2 DEF SaysMerged

(* An answer that says merged, or that of a merge, tells of a merge.       *)
LEMMA AnsweredKnows ==
    ASSUME Shaped, NEW c \in Calls, NEW k, NEW n, NEW q, q = "merged" => Merged',
           k = "merge" => Merged', Merged => Merged', MergeKnown, Answered(c, k, n, q)
    PROVE  \A d \in Calls : SaysMerged(call'[d]) => Merged'
    <1> DEFINE r == [Idle EXCEPT !.kind = k, !.phase = "done", !.number = n, !.pull = q,
                                 !.checks = github.checks]
    <1>1. r.kind = k /\ r.pull = q
        BY DEF Idle
    <1>2. SaysMerged(r) => Merged'
        BY <1>1 DEF SaysMerged
    <1>3. call' = [call EXCEPT ![c] = r]
        BY DEF Answered
    <1> HIDE DEF r
    <1> QED BY <1>2, <1>3, CallKnows

(* A call that ends or settles as failed says nothing new of a merge.      *)
LEMMA SettlesKnows ==
    ASSUME Shaped, MergeKnown, NEW c \in Calls, Merged => Merged',
           \/ Ends(c)
           \/ \E p \in {"uncertain", "rejected", "completed"} : Settles(c, p)
    PROVE  \A d \in Calls : SaysMerged(call'[d]) => Merged'
    <1>1. CASE Ends(c)
        BY <1>1, SettledSilent, CallKnows DEF Ends
    <1>2. ASSUME NEW p \in {"uncertain", "rejected", "completed"}, Settles(c, p)
          PROVE  \A d \in Calls : SaysMerged(call'[d]) => Merged'
        BY <1>2, SettledSilent, CallKnows DEF Settles
    <1> QED BY <1>1, <1>2

(* A request took effect: its answer, if it comes, tells the truth.        *)
LEMMA DeliveredKnows ==
    ASSUME Shaped, MergeKnown, NEW c \in Calls, NEW n, NEW q, q = "merged" => Merged',
           call[c].kind = "merge" => Merged', Merged => Merged', Delivered(c, n, q) \/ Refused(c)
    PROVE  \A d \in Calls : SaysMerged(call'[d]) => Merged'
    BY AnsweredKnows, SettlesKnows DEF Delivered, Unanswered, Refused

(* A step that adds a pull request event to the deliveries.                *)
LEMMA PullKnows ==
    ASSUME Shaped, MergeKnown, NEW n, NEW q, Pull(n, q)
    PROVE  /\ \A h \in hooks' : h.event = "pull_request" /\ h.result = "merged" => Merged'
           /\ github'.pull = "merged" => Merged'
           /\ Merged => Merged'
    <1>1. /\ github.merged \subseteq github'.merged
          /\ github'.pull = q
          /\ q = "merged" => github'.merged # {}
        BY PullGrows DEF Shaped
    <1>2. hooks' = hooks \cup {Pulled(n, q)} /\ Pulled(n, q).result = q
        BY DEF Pull, Pulled
    <1> QED BY <1>1, <1>2 DEF MergeKnown, Merged

(* What a step that leaves GitHub and the deliveries alone has to show.    *)
LEMMA LocalKnows ==
    ASSUME MergeKnown, UNCHANGED github, hooks' \subseteq hooks,
           \A c \in Calls : SaysMerged(call'[c]) => Merged',
           intent'.status = "merged" => Merged'
    PROVE  MergeKnown'
    BY DEF MergeKnown, Merged

(* An intent becomes merged only on what its call, a snapshot or a webhook *)
(* tells, and each has it from GitHub.                                     *)
LEMMA IntentKnows ==
    ASSUME Shaped, MergeKnown, Next
    PROVE  intent'.status = "merged" => Merged
    <1> USE DEF Shaped
    <1>a. intent \in Intent
        BY DEF TypeOK
    <1>b. intent.status = "merged" => Merged
        BY DEF MergeKnown
    <1> DEFINE Known == intent'.status = "merged" => Merged
    <1>1. CASE CheckLocally
        BY <1>1, <1>a, <1>b DEF CheckLocally, Intent
    <1>2. ASSUME NEW a, Approved(a) PROVE Known
        BY <1>2, <1>a DEF Approved, Intent
    <1>3. CASE ApproveCreate
        BY <1>2, <1>3 DEF ApproveCreate
    <1>4. CASE Revoke
        BY <1>4, <1>a DEF Revoke, Intent
    <1>5. ASSUME NEW c \in Calls, EnsureChecks(c) PROVE Known
        BY <1>1, <1>5, <1>b DEF EnsureChecks
    <1>6. ASSUME NEW c \in Calls, ApproveMerge(c) PROVE Known
        BY <1>2, <1>6, <1>b DEF ApproveMerge
    <1>7. ASSUME NEW c \in Calls, NEW a, Prepare(c, a) PROVE Known
        BY <1>7, <1>a DEF Prepare, Intent
    <1>8. ASSUME NEW c \in Calls, Complete(c) PROVE Known
        <2>1. CASE call[c].kind = "merge"
            BY <1>8, <2>1 DEF Complete, MergeKnown, SaysMerged
        <2>2. CASE call[c].kind = "create"
            BY <1>8, <1>a, <1>b, <2>2 DEF Complete, Intent
        <2> QED BY <1>8, <2>1, <2>2 DEF Complete
    <1>9. ASSUME NEW c \in Calls, RefreshBase(c) PROVE Known
        BY <1>9, <1>a, <1>b DEF RefreshBase, Intent
    <1>10. ASSUME NEW c \in Calls, Fail(c) PROVE Known
        BY <1>10, <1>a DEF Fail, Intent
    <1>11. ASSUME NEW c \in Calls, Advance(c) PROVE Known
        BY <1>1, <1>11, <1>b DEF Advance, RecoverChecks
    <1>12. ASSUME NEW c \in Calls, ApplySnapshot(c) PROVE Known
        <2>1. PICK q \in Pulls : q = call[c].pull
            BY <1>12 DEF ApplySnapshot, At, CallShape
        <2>2. intent'.status = StatusOf(q)
            BY <1>12, <1>a, <2>1 DEF ApplySnapshot, Intent
        <2> QED BY <2>1, <2>2, StatusOfType DEF MergeKnown, SaysMerged
    <1>13. ASSUME NEW h \in hooks, Webhook(h) PROVE Known
        <2>1. CASE h.event # "pull_request"
            BY <1>13, <1>a, <1>b, <2>1 DEF Webhook, Intent
        <2>2. CASE h.event = "pull_request"
            <3>1. PICK q \in Pulls : q = h.result
                BY <2>2 DEF TypeOK, PullHook, CheckHook
            <3>2. intent'.status \in {StatusOf(q), intent.status}
                BY <1>13, <1>a, <2>2, <3>1 DEF Webhook, Intent
            <3> QED BY <1>b, <2>2, <3>1, <3>2, StatusOfType DEF MergeKnown
        <2> QED BY <2>1, <2>2
    <1>14. CASE Resume
        BY <1>1, <1>14, <1>b DEF Resume, RecoverChecks
    <1>15. CASE Restart
        <2>1. intent'.status = RecoveredStatus
            BY <1>15, <1>a DEF Restart, Intent
        <2> QED BY <2>1, <1>b DEF RecoveredStatus
    <1> QED BY <1>b, <1>3, <1>4, <1>5, <1>6, <1>7, <1>8, <1>9, <1>10, <1>11, <1>12, <1>13, <1>14, <1>15
            DEF Next, Execute, CheckRefs, RequestFails, OpenPull, ReadyPull, MergePull,
                ReadSnapshot, ByHand, Expire, Remote

(* Every step keeps where the knowledge of a merge comes from.             *)
LEMMA KnownNext ==
    ASSUME Shaped, MergeKnown, Next
    PROVE  MergeKnown'
    <1> USE DEF Shaped
    <1>a. Merged => Merged'
        BY Grows DEF Merged
    <1>b. intent'.status = "merged" => Merged'
        BY <1>a, IntentKnows
    <1>c. \A d \in Calls : SaysMerged(call[d]) => Merged'
        BY <1>a DEF MergeKnown
    <1> DEFINE CallsKnow == \A d \in Calls : SaysMerged(call'[d]) => Merged'
    <1>1. ASSUME UNCHANGED github, hooks' \subseteq hooks, CallsKnow PROVE MergeKnown'
        BY <1>1, <1>b, LocalKnows
    <1>2. ASSUME NEW n, NEW q, Pull(n, q), CallsKnow PROVE MergeKnown'
        BY <1>2, <1>b, PullKnows DEF MergeKnown
    <1>3. CASE UNCHANGED <<github, call>> /\ hooks' \subseteq hooks
        BY <1>1, <1>3, <1>c
    <1>4. ASSUME NEW c \in Calls, EnsureChecks(c) PROVE MergeKnown'
        <2> DEFINE r == [Idle EXCEPT !.kind = "approve", !.phase = "ensured",
                                     !.revision = intent.revision]
        <2>1. r.pull = "none" /\ r.kind = "approve"
            BY DEF Idle
        <2>2. call' = [call EXCEPT ![c] = r]
            BY <1>4 DEF EnsureChecks
        <2>3. ~SaysMerged(r)
            BY <2>1 DEF SaysMerged
        <2> HIDE DEF r
        <2>4. CallsKnow
            BY <1>a, <2>2, <2>3, CallKnows
        <2> QED BY <1>1, <1>4, <2>4 DEF EnsureChecks, Unchanged
    <1>5. ASSUME NEW c \in Calls, NEW a \in {"create", "merge"}, Prepare(c, a) PROVE MergeKnown'
        <2> DEFINE r == [Idle EXCEPT !.kind = a, !.phase = "prepared"]
        <2>1. r.pull = "none" /\ r.phase = "prepared"
            BY DEF Idle
        <2>2. call' = [call EXCEPT ![c] = r]
            BY <1>5 DEF Prepare
        <2>3. ~SaysMerged(r)
            BY <2>1 DEF SaysMerged
        <2> HIDE DEF r
        <2>4. CallsKnow
            BY <1>a, <2>2, <2>3, CallKnows
        <2> QED BY <1>1, <1>5, <2>4 DEF Prepare, Unchanged
    <1>6. ASSUME NEW c \in Calls, CheckRefs(c) PROVE MergeKnown'
        <2> DEFINE r == [Idle EXCEPT !.kind = call[c].kind, !.phase = "checked",
                                     !.base = github.base, !.number = intent.number]
                   m == [Idle EXCEPT !.kind = "create", !.phase = "moved", !.base = github.base]
        <2>1. r.pull = "none" /\ r.phase = "checked" /\ m.pull = "none" /\ m.phase = "moved"
            BY DEF Idle
        <2>2. ~SaysMerged(r) /\ ~SaysMerged(m)
            BY <2>1 DEF SaysMerged
        <2>3. \/ call' = [call EXCEPT ![c] = r]
              \/ call' = [call EXCEPT ![c] = m]
              \/ Settles(c, "rejected")
            BY <1>6 DEF CheckRefs
        <2> HIDE DEF r, m
        <2>4. CallsKnow
            BY <1>a, <2>2, <2>3, CallKnows, SettlesKnows
        <2> QED BY <1>1, <1>6, <2>4 DEF CheckRefs
    <1>7. ASSUME NEW c \in Calls,
                 ApproveMerge(c) \/ RequestFails(c) \/ Complete(c) \/ RefreshBase(c) \/ Fail(c)
                     \/ ApplySnapshot(c)
          PROVE  MergeKnown'
        <2>1. \/ Ends(c)
              \/ \E p \in {"uncertain", "rejected", "completed"} : Settles(c, p)
            BY <1>7 DEF ApproveMerge, RequestFails, Unanswered, Refused, Complete, RefreshBase, Fail,
                        ApplySnapshot
        <2>2. CallsKnow
            BY <1>a, <2>1, SettlesKnows
        <2>3. UNCHANGED <<github, hooks>>
            BY <1>7 DEF ApproveMerge, RequestFails, Complete, RefreshBase, Fail, ApplySnapshot, Unchanged
        <2> QED BY <1>1, <2>2, <2>3
    <1>8. ASSUME NEW c \in Calls, OpenPull(c) PROVE MergeKnown'
        <2>1. CASE Settles(c, "rejected") /\ UNCHANGED <<github, hooks>>
            BY <1>1, <1>a, <2>1, SettlesKnows
        <2>2. call[c].kind # "merge"
            BY <1>8 DEF OpenPull, At
        <2>3. CASE /\ github.pull \in Open /\ UNCHANGED <<github, hooks>>
                   /\ Delivered(c, github.number, github.pull) \/ Refused(c)
            BY <1>1, <1>a, <2>2, <2>3, DeliveredKnows DEF Open
        <2>4. CASE /\ Pull(github.number + 1, "draft")
                   /\ Delivered(c, github.number + 1, "draft") \/ Refused(c)
            BY <1>2, <1>a, <2>2, <2>4, DeliveredKnows
        <2> QED BY <1>8, <2>1, <2>3, <2>4 DEF OpenPull
    <1>9. ASSUME NEW c \in Calls, Goes(c, "mergeable") PROVE CallsKnow
        <2> DEFINE r == [call[c] EXCEPT !.phase = "mergeable"]
        <2>1. call' = [call EXCEPT ![c] = r]
            BY <1>9 DEF Goes
        <2>2. r.phase = "mergeable" /\ r.pull = call[c].pull
            BY CallFields DEF Call
        <2>3. SaysMerged(r) => Merged'
            BY <1>c, <2>2 DEF SaysMerged
        <2> HIDE DEF r
        <2> QED BY <1>a, <2>1, <2>3, CallKnows
    <1>10. ASSUME NEW c \in Calls, ReadyPull(c) PROVE MergeKnown'
        <2>1. CallsKnow
            BY <1>10, <1>9, <1>a, SettlesKnows DEF ReadyPull, Unanswered
        <2> QED BY <1>10, <1>1, <1>2, <2>1 DEF ReadyPull
    <1>11. ASSUME NEW c \in Calls, MergePull(c) PROVE MergeKnown'
        <2>1. CASE Pull(github.number, "merged") /\ Delivered(c, github.number, "merged")
            <3>1. Merged'
                BY <2>1, PullGrows DEF Merged
            <3> QED BY <1>2, <2>1, <3>1 DEF Merged
        <2>2. CASE Settles(c, "uncertain") /\ UNCHANGED <<github, hooks>>
            BY <1>1, <1>a, <2>2, SettlesKnows
        <2> QED BY <1>11, <2>1, <2>2 DEF MergePull
    <1>12. ASSUME NEW c \in Calls, Advance(c) PROVE MergeKnown'
        <2>1. CallsKnow
            BY <1>12, <1>a, <1>c, SettlesKnows DEF Advance
        <2> QED BY <1>1, <1>12, <2>1 DEF Advance
    <1>13. ASSUME NEW c \in Calls, ReadSnapshot(c) PROVE MergeKnown'
        <2> DEFINE q == IF intent.number = github.number THEN github.pull
                        ELSE IF intent.number \in github.merged THEN "merged" ELSE "closed"
        <2>1. q = "merged" => Merged
            BY DEF MergeKnown, Merged
        <2>2. Answered(c, "reconcile", intent.number, q)
            BY <1>13 DEF ReadSnapshot
        <2> HIDE DEF q
        <2>3. CallsKnow
            BY <1>a, <2>1, <2>2, AnsweredKnows
        <2> QED BY <1>1, <1>13, <2>3 DEF ReadSnapshot
    <1>14. CASE ByHand
        <2>1. UNCHANGED call
            BY <1>14 DEF ByHand
        <2>2. CallsKnow
            BY <1>c, <2>1
        <2>3. ASSUME github' = [github EXCEPT !.base = @ + 1], UNCHANGED hooks PROVE MergeKnown'
            BY <1>b, <2>2, <2>3 DEF MergeKnown, Merged, TypeOK, Github
        <2>4. ASSUME NEW s, github' = [github EXCEPT !.checks = s],
                     hooks' = hooks \cup {Checked("check_run", s), Checked("check_suite", s)}
              PROVE  MergeKnown'
            BY <1>b, <2>2, <2>4 DEF MergeKnown, Merged, TypeOK, Github, Checked
        <2> QED BY <1>14, <1>2, <2>2, <2>3, <2>4 DEF ByHand
    <1>15. CASE Restart
        <2>1. CallsKnow
            BY <1>15, SettledSilent DEF Restart
        <2> QED BY <1>1, <1>15, <2>1 DEF Restart
    <1>16. CASE ApproveCreate \/ Revoke \/ Resume \/ Expire
        BY <1>3, <1>16 DEF ApproveCreate, Revoke, Resume, Expire, Unchanged
    <1>17. ASSUME NEW h \in hooks, Webhook(h) PROVE MergeKnown'
        BY <1>3, <1>17 DEF Webhook
    <1> QED BY <1>4, <1>5, <1>6, <1>7, <1>8, <1>10, <1>11, <1>12, <1>13, <1>14, <1>15, <1>16, <1>17
            DEF Next, Execute

(* The task completes in two actions, and both look at the intent.         *)
LEMMA CompletedNext ==
    ASSUME Shaped, MergeKnown, CompletedIsMerged, Next
    PROVE  CompletedIsMerged'
    <1>1. (github.merged # {} => github'.merged # {}) /\ (BothApproved => BothApproved')
        BY Grows DEF Shaped, BothApproved
    <1>2. UNCHANGED task \/ MayIntegrate
        BY DEF Next, Execute, ApproveCreate, Revoke, EnsureChecks, ApproveMerge, Prepare, CheckRefs,
            RequestFails, OpenPull, ReadyPull, MergePull, Complete, RefreshBase, Fail, Advance,
            ReadSnapshot, ApplySnapshot, Webhook, Resume, ByHand, Expire, Restart, Remote, Unchanged
    <1>3. MayIntegrate => github.merged # {} /\ BothApproved
        BY DEF MayIntegrate, MergeKnown, Merged
    <1> QED BY <1>1, <1>2, <1>3 DEF CompletedIsMerged

(* A task completes only over a request that GitHub has merged and that    *)
(* was approved twice.                                                     *)
THEOREM CompletedOverMerge == Spec => []CompletedIsMerged
    <1> DEFINE I == Shaped /\ MergeKnown /\ CompletedIsMerged
    <1>1. Init => I
        <2> SUFFICES ASSUME Init PROVE I
            OBVIOUS
        <2>1. Shaped
            BY TypeInit DEF Shaped
        <2>2. MergeKnown /\ CompletedIsMerged
            BY DEF Init, MergeKnown, SaysMerged, Idle, CompletedIsMerged
        <2> QED BY <2>1, <2>2
    <1>2. I /\ [Next]_vars => I'
        <2> SUFFICES ASSUME I, [Next]_vars PROVE I'
            OBVIOUS
        <2>1. CASE Next
            BY <2>1, TypeNext, KnownNext, CompletedNext
        <2>2. CASE UNCHANGED vars
            BY <2>2 DEF vars, Shaped, TypeOK, CallShape, PullShape, MergeKnown, Merged,
                CompletedIsMerged, BothApproved
        <2> QED BY <2>1, <2>2
    <1>3. I => CompletedIsMerged
        OBVIOUS
    <1> QED BY <1>1, <1>2, <1>3, PTL DEF Spec

-----------------------------------------------------------------------------
(* An executing intent has its call.                                       *)

(* What the call at an intent depends on.                                  *)
SameWork == /\ intent'.status = intent.status
            /\ intent'.action = intent.action
            /\ intent'.base = intent.base

(* A call that is at the intent stays at it.                               *)
LEMMA BusyStays ==
    ASSUME Shaped, InFlight, SameWork, NEW c \in Calls, NEW r,
           call' = [call EXCEPT ![c] = r],
           Busy(call[c]) => /\ r.kind = call[c].kind
                            /\ r.phase \notin {"idle", "ensured", "completed"}
                            /\ r.phase = "moved" => r.base # intent.base
    PROVE  InFlight'
    <1>1. ASSUME NEW d \in Calls, Busy(call[d]) PROVE Busy(call[d])'
        <2>1. CASE d = c
            BY <1>1, <2>1 DEF Busy, SameWork, Shaped, TypeOK
        <2>2. CASE d # c
            BY <1>1, <2>2 DEF Busy, SameWork, Shaped, TypeOK
        <2> QED BY <2>1, <2>2
    <1> QED BY <1>1 DEF InFlight, SameWork

(* A step that touches neither the work of the intent nor the calls.       *)
LEMMA BusyKept == ASSUME InFlight, SameWork, UNCHANGED call PROVE InFlight'
    BY DEF InFlight, SameWork, Busy

(* An intent that waits or has ended needs no call.                        *)
LEMMA Rests == ASSUME intent'.status \notin Executing PROVE InFlight'
    BY DEF InFlight, Executing

(* A call that failed is still at its intent: Fail is to come.             *)
LEMMA SettlesStays ==
    ASSUME Shaped, InFlight, SameWork, NEW c \in Calls,
           Settles(c, "uncertain") \/ Settles(c, "rejected")
    PROVE  InFlight'
    <1> PICK p \in {"uncertain", "rejected"} : Settles(c, p)
        OBVIOUS
    <1> DEFINE r == [Idle EXCEPT !.kind = call[c].kind, !.phase = p]
    <1>1. r.kind = call[c].kind /\ r.phase = p
        BY DEF Idle
    <1>2. call' = [call EXCEPT ![c] = r]
        BY DEF Settles
    <1> HIDE DEF r
    <1> QED BY <1>1, <1>2, BusyStays

(* A call that ends without having been at work leaves the others.         *)
LEMMA EndsStays ==
    ASSUME Shaped, InFlight, SameWork, NEW c \in Calls, ~Busy(call[c]), Ends(c)
    PROVE  InFlight'
    BY BusyStays DEF Ends

(* A call that got its answer is still at its intent.                      *)
LEMMA AnsweredStays ==
    ASSUME Shaped, InFlight, SameWork, NEW c \in Calls, NEW k, NEW n, NEW q,
           Busy(call[c]) => k = call[c].kind, Answered(c, k, n, q)
    PROVE  InFlight'
    <1> DEFINE r == [Idle EXCEPT !.kind = k, !.phase = "done", !.number = n, !.pull = q,
                                 !.checks = github.checks]
    <1>1. r.kind = k /\ r.phase = "done"
        BY DEF Idle
    <1>2. call' = [call EXCEPT ![c] = r]
        BY DEF Answered
    <1> HIDE DEF r
    <1> QED BY <1>1, <1>2, BusyStays

(* So is one whose request took effect, answered or not.                   *)
LEMMA DeliveredStays ==
    ASSUME Shaped, InFlight, SameWork, NEW c \in Calls, NEW n, NEW q,
           Delivered(c, n, q) \/ Refused(c)
    PROVE  InFlight'
    BY AnsweredStays, SettlesStays DEF Delivered, Unanswered, Refused

(* Every step leaves an executing intent with its call.                    *)
LEMMA InFlightNext == ASSUME Shaped, InFlight, Next PROVE InFlight'
    <1> USE DEF Shaped
    <1>a. intent \in Intent
        BY DEF TypeOK
    <1>b. ASSUME NEW c \in Calls, call[c] = Idle PROVE ~Busy(call[c])
        BY <1>b DEF Busy, Idle
    <1>1. CheckLocally => SameWork
        BY <1>a DEF CheckLocally, SameWork, Intent
    <1>2. UNCHANGED intent => SameWork
        BY DEF SameWork
    <1>3. ASSUME NEW a, Approved(a) PROVE intent'.status \notin Executing
        BY <1>3, <1>a DEF Approved, Intent, Executing
    <1>4. CASE ApproveCreate
        BY <1>3, <1>4, Rests DEF ApproveCreate
    <1>5. CASE Revoke
        BY <1>5, <1>a, Rests DEF Revoke, Intent, Executing
    <1>6. ASSUME NEW c \in Calls, EnsureChecks(c) PROVE InFlight'
        <2>1. SameWork
            BY <1>1, <1>2, <1>6 DEF EnsureChecks
        <2>2. PICK r : call' = [call EXCEPT ![c] = r]
            BY <1>6 DEF EnsureChecks
        <2>3. ~Busy(call[c])
            BY <1>6, <1>b DEF EnsureChecks
        <2> QED BY <2>1, <2>2, <2>3, BusyStays
    <1>7. ASSUME NEW c \in Calls, ApproveMerge(c) PROVE InFlight'
        <2>1. ~Busy(call[c]) /\ Ends(c)
            BY <1>7 DEF ApproveMerge, At, Busy
        <2> QED BY <1>2, <1>3, <1>7, <2>1, Rests, EndsStays DEF ApproveMerge
    <1>8. ASSUME NEW c \in Calls, NEW a \in {"create", "merge"}, Prepare(c, a) PROVE InFlight'
        <2> DEFINE r == [Idle EXCEPT !.kind = a, !.phase = "prepared"]
                   status == IF a = "create" THEN "creating_pr" ELSE "merging_pr"
        <2>1. r.kind = a /\ r.phase = "prepared"
            BY DEF Idle
        <2>2. intent'.status = status /\ intent'.action = a
            BY <1>8, <1>a DEF Prepare, Intent
        <2>3. call'[c] = r
            BY <1>8 DEF Prepare, TypeOK
        <2> HIDE DEF r
        <2>4. Busy(call[c])'
            BY <2>1, <2>2, <2>3 DEF Busy
        <2> QED BY <2>2, <2>4 DEF InFlight
    <1>9. ASSUME NEW c \in Calls, CheckRefs(c) PROVE InFlight'
        <2> DEFINE r == [Idle EXCEPT !.kind = call[c].kind, !.phase = "checked",
                                     !.base = github.base, !.number = intent.number]
                   m == [Idle EXCEPT !.kind = "create", !.phase = "moved", !.base = github.base]
        <2>1. /\ r.kind = call[c].kind /\ r.phase = "checked"
              /\ m.kind = "create" /\ m.phase = "moved" /\ m.base = github.base
            BY DEF Idle
        <2>2. \/ call' = [call EXCEPT ![c] = r]
              \/ /\ call' = [call EXCEPT ![c] = m]
                 /\ github.base # intent.base /\ call[c].kind = "create"
              \/ Settles(c, "rejected")
            BY <1>9 DEF CheckRefs, BaseStands
        <2>3. SameWork
            BY <1>2, <1>9 DEF CheckRefs, Remote
        <2> HIDE DEF r, m
        <2> QED BY <2>1, <2>2, <2>3, BusyStays, SettlesStays
    <1>10. ASSUME NEW c \in Calls, RequestFails(c) PROVE InFlight'
        BY <1>2, <1>10, SettlesStays DEF RequestFails, Unanswered, Refused, Remote
    <1>11. ASSUME NEW c \in Calls, OpenPull(c) PROVE InFlight'
        BY <1>2, <1>11, SettlesStays, DeliveredStays DEF OpenPull, Remote
    <1>12. ASSUME NEW c \in Calls, ReadyPull(c) PROVE InFlight'
        <2>1. ASSUME Goes(c, "mergeable"), SameWork PROVE InFlight'
            <3> DEFINE r == [call[c] EXCEPT !.phase = "mergeable"]
            <3>1. r.kind = call[c].kind /\ r.phase = "mergeable"
                BY CallFields DEF Call
            <3>2. call' = [call EXCEPT ![c] = r]
                BY <2>1 DEF Goes
            <3> HIDE DEF r
            <3> QED BY <2>1, <3>1, <3>2, BusyStays
        <2> QED BY <1>2, <1>12, <2>1, SettlesStays DEF ReadyPull, Unanswered, Remote
    <1>13. ASSUME NEW c \in Calls, MergePull(c) PROVE InFlight'
        BY <1>2, <1>13, SettlesStays, DeliveredStays DEF MergePull, Remote
    <1>14. ASSUME NEW c \in Calls, Complete(c) PROVE InFlight'
        <2>1. CASE intent.action = call[c].kind /\ intent.status \in Executing
            BY <1>14, <1>a, <2>1, Rests DEF Complete, Intent, Executing
        <2>2. CASE ~(intent.action = call[c].kind /\ intent.status \in Executing)
            BY <1>2, <1>14, <2>2, SettlesStays DEF Complete
        <2> QED BY <2>1, <2>2
    <1>15. ASSUME NEW c \in Calls, RefreshBase(c) PROVE InFlight'
        <2>1. CASE intent.status = "creating_pr" /\ intent.action = "create"
                   /\ intent.base # call[c].base
            BY <1>15, <1>a, <2>1, Rests DEF RefreshBase, Intent, Executing
        <2>2. CASE ~(intent.status = "creating_pr" /\ intent.action = "create"
                   /\ intent.base # call[c].base)
            <3>1. UNCHANGED intent /\ Ends(c)
                BY <1>15, <2>2 DEF RefreshBase
            <3>2. CASE Busy(call[c])
                <4>1. intent.action = "create" /\ intent.base # call[c].base
                    BY <1>15, <3>2 DEF RefreshBase, Busy, CallShape
                <4>2. intent.status \notin Executing
                    BY <2>2, <4>1 DEF InFlight, Executing
                <4> QED BY <3>1, <4>2, Rests
            <3>3. CASE ~Busy(call[c])
                BY <1>2, <3>1, <3>3, EndsStays
            <3> QED BY <3>2, <3>3
        <2> QED BY <2>1, <2>2
    <1>16. ASSUME NEW c \in Calls, Fail(c) PROVE InFlight'
        BY <1>16, <1>a, Rests DEF Fail, Intent, Executing
    <1>17. ASSUME NEW c \in Calls, Advance(c) PROVE InFlight'
        <2>1. SameWork /\ ~Busy(call[c])
            BY <1>1, <1>2, <1>17 DEF Advance, RecoverChecks, Busy
        <2> QED BY <1>17, <2>1, EndsStays, BusyKept DEF Advance
    <1>18. ASSUME NEW c \in Calls, ReadSnapshot(c) PROVE InFlight'
        BY <1>2, <1>18, <1>b, AnsweredStays DEF ReadSnapshot, Remote
    <1>19. ASSUME NEW c \in Calls, ApplySnapshot(c) PROVE InFlight'
        <2>1. PICK q \in Pulls : q = call[c].pull
            BY <1>19 DEF ApplySnapshot, At, CallShape
        <2>2. intent'.status = StatusOf(q)
            BY <1>19, <1>a, <2>1 DEF ApplySnapshot, Intent
        <2> QED BY <2>2, StatusOfType, Rests
    <1>20. ASSUME NEW h \in hooks, Webhook(h) PROVE InFlight'
        <2>1. UNCHANGED call
            BY <1>20 DEF Webhook
        <2>2. CASE h.event # "pull_request"
            <3>1. SameWork
                BY <1>20, <1>a, <2>2 DEF Webhook, Intent, SameWork
            <3> QED BY <2>1, <3>1, BusyKept
        <2>3. CASE h.event = "pull_request"
            <3>1. PICK q \in Pulls : q = h.result
                BY <2>3 DEF TypeOK, PullHook, CheckHook
            <3>2. UNCHANGED intent \/ intent'.status = StatusOf(q)
                BY <1>20, <1>a, <2>3, <3>1 DEF Webhook, Intent
            <3> QED BY <1>2, <2>1, <3>2, StatusOfType, Rests, BusyKept
        <2> QED BY <2>2, <2>3
    <1>21. CASE Resume
        BY <1>1, <1>2, <1>21, BusyKept DEF Resume, RecoverChecks
    <1>22. CASE ByHand \/ Expire
        BY <1>2, <1>22, BusyKept DEF ByHand, Expire
    <1>23. CASE Restart
        <2>1. intent'.status = RecoveredStatus
            BY <1>23, <1>a DEF Restart, Intent
        <2>2. RecoveredStatus \notin Executing
            BY DEF RecoveredStatus, Executing
        <2> QED BY <2>1, <2>2, Rests
    <1> QED BY <1>4, <1>5, <1>6, <1>7, <1>8, <1>9, <1>10, <1>11, <1>12, <1>13, <1>14, <1>15, <1>16,
               <1>17, <1>18, <1>19, <1>20, <1>21, <1>22, <1>23 DEF Next, Execute

(* Whatever webhooks, revocations, reconciliations, other calls and        *)
(* restarts do, an intent that is creating or merging has a call at it.    *)
THEOREM ExecutingAttended == Spec => []ExecutingHasCall
    <1> DEFINE I == Shaped /\ InFlight
    <1>1. Init => I
        <2> SUFFICES ASSUME Init PROVE I
            OBVIOUS
        <2>1. Shaped
            BY TypeInit DEF Shaped
        <2>2. InFlight
            BY DEF Init, InFlight, Executing
        <2> QED BY <2>1, <2>2
    <1>2. I /\ [Next]_vars => I'
        <2> SUFFICES ASSUME I, [Next]_vars PROVE I'
            OBVIOUS
        <2>1. CASE Next
            BY <2>1, TypeNext, InFlightNext
        <2>2. CASE UNCHANGED vars
            BY <2>2 DEF vars, Shaped, TypeOK, CallShape, PullShape, InFlight, Busy
        <2> QED BY <2>1, <2>2
    <1>3. I => ExecutingHasCall
        BY DEF InFlight, Busy, ExecutingHasCall
    <1> QED BY <1>1, <1>2, <1>3, PTL DEF Spec

-----------------------------------------------------------------------------
(* The service merges on an approval of the base that it found.            *)

(* An approval is of a revision that has passed.  Once a merge is approved *)
(* the time to create is over: the intent is not proposed or creating any  *)
(* more, and no approval of a creation stands.                             *)
HasMerge == \E a \in intent.approvals : a.action = "merge"

Approvals ==
    /\ \A a \in intent.approvals : a.revision < intent.revision
    /\ HasMerge =>
           /\ intent.status \notin {"proposed", "creating_pr"}
           /\ \A a \in intent.approvals : a.action = "create" => a.revision < intent.revision - 1

(* A merge has the approval of the base of the intent, and from its look   *)
(* at the references on, of the base that it found.                        *)
ApprovedFor(base) == \E a \in intent.approvals : a.action = "merge" /\ a.base = base
Covered(r) ==
    r.kind = "merge" => /\ r.phase = "prepared" => ApprovedFor(intent.base)
                        /\ r.phase \in {"checked", "mergeable"} => ApprovedFor(r.base)
MergesCovered == \A c \in Calls : Covered(call[c])

(* A step that approves nothing keeps the order of the approvals.          *)
LEMMA ApprovalsKept ==
    ASSUME TypeOK, TypeOK', Approvals, intent'.approvals = intent.approvals,
           intent'.revision >= intent.revision,
           HasMerge => intent'.status \notin {"proposed", "creating_pr"}
    PROVE  Approvals'
    BY DEF Approvals, HasMerge, TypeOK, Intent

(* Neither does an approval disturb it: its revision passes as it is made. *)
LEMMA ApprovedNext ==
    ASSUME TypeOK, Approvals, NEW a \in {"create", "merge"}, Approved(a),
           a = "create" => intent.status = "proposed"
    PROVE  Approvals'
    <1>1. intent \in Intent
        BY DEF TypeOK
    <1> DEFINE status == IF a = "create" THEN "create_approved" ELSE "merge_approved"
    <1>2. /\ intent'.approvals = intent.approvals \cup {Approval(a)}
          /\ intent'.revision = intent.revision + 1
          /\ intent'.status = status
        BY <1>1 DEF Approved, Intent
    <1>3. Approval(a).action = a /\ Approval(a).revision = intent.revision
        BY DEF Approval
    <1>4. \A b \in intent.approvals : b.revision \in Nat /\ b.revision < intent.revision
        BY <1>1 DEF Approvals, Intent
    <1>5. intent.revision \in Nat
        BY <1>1 DEF Intent
    <1>6. \A b \in intent'.approvals : b.revision < intent'.revision
        BY <1>2, <1>3, <1>4, <1>5
    <1>7. CASE a = "create"
        <2>1. ~HasMerge
            BY <1>7 DEF Approvals
        <2>2. ~HasMerge'
            BY <1>2, <1>3, <1>7, <2>1 DEF HasMerge
        <2> QED BY <1>6, <2>2 DEF Approvals
    <1>8. CASE a = "merge"
        <2>1. intent'.status \notin {"proposed", "creating_pr"}
            BY <1>2, <1>8
        <2>2. \A b \in intent'.approvals : b.action = "create" => b.revision < intent'.revision - 1
            BY <1>2, <1>3, <1>4, <1>5, <1>8
        <2> QED BY <1>6, <2>1, <2>2 DEF Approvals
    <1> QED BY <1>7, <1>8

(* No creation is prepared once a merge has been approved.                 *)
LEMMA CreationOver ==
    ASSUME TypeOK, Approvals, HasMerge PROVE ~MayExecute("create")
    <1> SUFFICES ASSUME Standing("create") PROVE FALSE
        BY DEF MayExecute
    <1>1. PICK a \in intent.approvals : a.action = "create" /\ a.revision = intent.revision - 1
        BY DEF Standing
    <1>2. intent.revision \in Nat
        BY DEF TypeOK, Intent
    <1> QED BY <1>1, <1>2 DEF Approvals

(* Every step keeps the order of the approvals, and the base of an intent  *)
(* whose merge has been approved.                                          *)
LEMMA ApprovalsNext ==
    ASSUME Shaped, Shaped', Approvals, Next
    PROVE  Approvals' /\ (HasMerge => intent'.base = intent.base)
    <1> USE DEF Shaped
    <1> DEFINE Keeps == Approvals' /\ (HasMerge => intent'.base = intent.base)
               Created == {"proposed", "creating_pr"}
               Same == /\ intent'.approvals = intent.approvals
                       /\ intent'.base = intent.base
                       /\ intent'.revision >= intent.revision
                       /\ intent'.status = intent.status \/ intent'.status \notin Created
    <1>a. intent \in Intent
        BY DEF TypeOK
    <1>b. Same => Keeps
        BY ApprovalsKept DEF Approvals
    <1>c. UNCHANGED intent => Same
        BY <1>a DEF Intent
    <1>1. CheckLocally => Same
        BY <1>a DEF CheckLocally, Intent
    <1>2. ASSUME NEW a \in {"create", "merge"}, Approved(a),
                 a = "create" => intent.status = "proposed"
          PROVE  Keeps
        BY <1>2, <1>a, ApprovedNext DEF Approved, Intent
    <1>3. CASE ApproveCreate
        BY <1>2, <1>3 DEF ApproveCreate
    <1>4. CASE Revoke
        <2>1. Same
            BY <1>4, <1>a DEF Revoke, Intent
        <2> QED BY <1>b, <2>1
    <1>5. ASSUME NEW c \in Calls, EnsureChecks(c) PROVE Keeps
        BY <1>1, <1>5, <1>b, <1>c DEF EnsureChecks
    <1>6. ASSUME NEW c \in Calls, ApproveMerge(c) PROVE Keeps
        BY <1>2, <1>6, <1>b, <1>c DEF ApproveMerge
    <1>7. ASSUME NEW c \in Calls, Prepare(c, "create") PROVE Keeps
        <2>1. ~HasMerge
            BY <1>7, CreationOver DEF Prepare
        <2>2. intent'.approvals = intent.approvals /\ intent'.revision = intent.revision
            BY <1>7, <1>a DEF Prepare, Intent
        <2>3. intent'.revision >= intent.revision
            BY <1>a, <2>2 DEF Intent
        <2> QED BY <2>1, <2>2, <2>3, ApprovalsKept
    <1>8. ASSUME NEW c \in Calls, Prepare(c, "merge") PROVE Keeps
        <2>1. Same
            BY <1>8, <1>a DEF Prepare, Intent
        <2> QED BY <1>b, <2>1
    <1>9. ASSUME NEW c \in Calls, Complete(c) PROVE Keeps
        <2>1. CASE UNCHANGED intent
            BY <1>b, <1>c, <2>1
        <2>2. ASSUME NEW status, NEW n, NEW s, NEW items,
                     intent' = [intent EXCEPT !.status = status, !.number = n, !.checks = s,
                         !.items = items, !.action = "none", !.revision = @ + 1],
                     status \notin Created
              PROVE  Same
            BY <1>a, <2>2 DEF Intent
        <2>3. ASSUME NEW items,
                     intent' = [intent EXCEPT !.status = "merged", !.checks = "passed",
                         !.items = items, !.action = "none", !.revision = @ + 1]
              PROVE  Same
            BY <1>a, <2>3 DEF Intent
        <2>4. CASE call[c].kind = "create" /\ ~UNCHANGED intent
            <3> DEFINE status == IF call[c].pull = "ready" THEN "ready" ELSE "draft_open"
            <3>1. status \notin Created
                OBVIOUS
            <3>2. intent' = [intent EXCEPT !.status = status, !.number = call[c].number,
                      !.checks = call[c].checks,
                      !.items = IF HasChecks THEN call[c].checks ELSE "none",
                      !.action = "none", !.revision = @ + 1]
                BY <1>9, <2>4 DEF Complete
            <3> HIDE DEF status
            <3> QED BY <1>b, <2>2, <3>1, <3>2
        <2>5. CASE call[c].kind = "merge" /\ ~UNCHANGED intent
            <3>1. intent' = [intent EXCEPT !.status = "merged", !.checks = "passed",
                      !.items = IF HasChecks THEN "passed" ELSE @,
                      !.action = "none", !.revision = @ + 1]
                BY <1>9, <2>5 DEF Complete
            <3> QED BY <1>b, <2>3, <3>1
        <2> QED BY <1>9, <2>1, <2>4, <2>5 DEF Complete
    <1>10. ASSUME NEW c \in Calls, RefreshBase(c) PROVE Keeps
        <2>1. CASE UNCHANGED intent
            BY <1>b, <1>c, <2>1
        <2>2. CASE /\ intent.status = "creating_pr"
                   /\ intent' = [intent EXCEPT !.base = call[c].base, !.status = "proposed",
                                               !.action = "none", !.revision = @ + 1]
            <3>1. ~HasMerge
                BY <2>2 DEF Approvals
            <3>2. intent'.approvals = intent.approvals /\ intent'.revision >= intent.revision
                BY <2>2, <1>a DEF Intent
            <3> QED BY <3>1, <3>2, ApprovalsKept
        <2> QED BY <1>10, <2>1, <2>2 DEF RefreshBase
    <1>11. ASSUME NEW c \in Calls, Fail(c) PROVE Keeps
        <2>1. Same
            BY <1>11, <1>a DEF Fail, Intent
        <2> QED BY <1>b, <2>1
    <1>12. ASSUME NEW c \in Calls, Advance(c) PROVE Keeps
        BY <1>1, <1>12, <1>b, <1>c DEF Advance, RecoverChecks
    <1>13. ASSUME NEW c \in Calls, ApplySnapshot(c) PROVE Keeps
        <2>1. PICK q \in Pulls : q = call[c].pull
            BY <1>13 DEF ApplySnapshot, At, CallShape
        <2>2. StatusOf(q) \notin Created
            BY DEF StatusOf, Pulls, Open
        <2> DEFINE seen == [intent EXCEPT !.status = StatusOf(q), !.number = call[c].number,
                                          !.checks = call[c].checks]
                   revision == IF seen.status = intent.status /\ seen.checks = intent.checks
                               THEN intent.revision ELSE intent.revision + 1
        <2>3. /\ seen.approvals = intent.approvals /\ seen.base = intent.base
              /\ seen.status = StatusOf(q) /\ seen.revision = intent.revision
            BY <1>a DEF Intent
        <2>4. intent' = [seen EXCEPT !.revision = revision]
            BY <1>13, <2>1, <2>3 DEF ApplySnapshot
        <2>5. /\ intent'.approvals = intent.approvals /\ intent'.base = intent.base
              /\ intent'.status = StatusOf(q) /\ intent'.revision = revision
            BY <1>a, <2>3, <2>4 DEF Intent
        <2>6. revision >= intent.revision
            BY <1>a DEF Intent
        <2> HIDE DEF seen, revision
        <2> QED BY <1>b, <2>2, <2>5, <2>6
    <1>14. ASSUME NEW h \in hooks, Webhook(h) PROVE Keeps
        <2>1. CASE h.event # "pull_request"
            <3>1. PICK s, i : intent' = [intent EXCEPT !.checks = s, !.items = i]
                BY <1>14, <2>1 DEF Webhook
            <3>2. Same
                BY <1>a, <3>1 DEF Intent
            <3> QED BY <1>b, <3>2
        <2>2. CASE h.event = "pull_request"
            <3>1. PICK q \in Pulls : q = h.result
                BY <2>2 DEF TypeOK, PullHook, CheckHook
            <3>2. StatusOf(q) \notin Created
                BY DEF StatusOf, Pulls, Open
            <3>3. ASSUME NEW s, NEW n, s \notin Created,
                         intent' = [intent EXCEPT !.status = s, !.number = n]
                  PROVE  Same
                BY <1>a, <3>3 DEF Intent
            <3>4. \/ UNCHANGED intent
                  \/ intent' = [intent EXCEPT !.status = StatusOf(q), !.number = h.number]
                BY <1>14, <2>2, <3>1 DEF Webhook
            <3> QED BY <1>b, <1>c, <3>2, <3>3, <3>4
        <2> QED BY <2>1, <2>2
    <1>15. CASE Resume
        BY <1>1, <1>15, <1>b, <1>c DEF Resume, RecoverChecks
    <1>16. CASE Restart
        <2>1. RecoveredStatus = intent.status \/ RecoveredStatus \notin Created
            BY DEF RecoveredStatus
        <2>2. Same
            BY <1>16, <1>a, <2>1 DEF Restart, Intent
        <2> QED BY <1>b, <2>2
    <1>17. ASSUME NEW c \in Calls,
                  \/ CheckRefs(c) \/ RequestFails(c) \/ OpenPull(c) \/ ReadyPull(c)
                  \/ MergePull(c) \/ ReadSnapshot(c)
           PROVE  Keeps
        BY <1>17, <1>b, <1>c DEF CheckRefs, RequestFails, OpenPull, ReadyPull, MergePull,
            ReadSnapshot, Remote
    <1>18. CASE ByHand \/ Expire
        BY <1>18, <1>b, <1>c DEF ByHand, Expire
    <1> QED BY <1>3, <1>4, <1>5, <1>6, <1>7, <1>8, <1>9, <1>10, <1>11, <1>12, <1>13, <1>14, <1>15,
               <1>16, <1>17, <1>18 DEF Next, Execute

(* What covers a merge covers it after a step: approvals stay, and so does *)
(* the base of the intent.                                                 *)
LEMMA CoveredStays ==
    ASSUME intent.approvals \subseteq intent'.approvals,
           HasMerge => intent'.base = intent.base, NEW r, Covered(r)
    PROVE  Covered(r)'
    <1>1. ASSUME NEW b, ApprovedFor(b) PROVE ApprovedFor(b)' /\ HasMerge
        BY <1>1 DEF ApprovedFor, HasMerge
    <1>2. CASE r.kind = "merge" /\ r.phase = "prepared"
        <2>1. ApprovedFor(intent.base) /\ intent'.base = intent.base
            BY <1>1, <1>2 DEF Covered
        <2>2. \E a \in intent'.approvals : a.action = "merge" /\ a.base = intent'.base
            BY <2>1 DEF ApprovedFor
        <2> QED BY <1>2, <2>2 DEF Covered, ApprovedFor
    <1>3. CASE r.kind = "merge" /\ r.phase \in {"checked", "mergeable"}
        BY <1>3 DEF Covered, ApprovedFor
    <1> QED BY <1>2, <1>3 DEF Covered

(* A step that writes the record of one call.                              *)
LEMMA CoveredUpdate ==
    ASSUME Shaped, MergesCovered, intent.approvals \subseteq intent'.approvals,
           HasMerge => intent'.base = intent.base,
           NEW c \in Calls, NEW r, call' = [call EXCEPT ![c] = r], Covered(r)'
    PROVE  MergesCovered'
    <1>1. ASSUME NEW d \in Calls, d # c PROVE Covered(call[d])'
        <2>1. Covered(call[d])
            BY DEF MergesCovered
        <2>2. call'[d] = call[d]
            BY <1>1 DEF Shaped, TypeOK
        <2>3. PICK s : s = call[d]
            OBVIOUS
        <2>4. Covered(s)'
            BY <2>1, <2>3, CoveredStays
        <2> QED BY <2>2, <2>3, <2>4 DEF Covered
    <1>2. Covered(call[c])'
        BY DEF Shaped, TypeOK, Covered
    <1> QED BY <1>1, <1>2 DEF MergesCovered

(* A record in another phase needs no approval.                            *)
LEMMA Uncovered ==
    ASSUME NEW r, r.phase \notin {"prepared", "checked", "mergeable"} \/ r.kind # "merge"
    PROVE  Covered(r)'
    BY DEF Covered

(* Every step of a call, and of the others, leaves its merges covered.     *)
LEMMA CoveredNext ==
    ASSUME Shaped, Shaped', Approvals, MergesCovered, Next
    PROVE  MergesCovered'
    <1>a. intent.approvals \subseteq intent'.approvals
        BY Grows DEF Shaped
    <1>b. HasMerge => intent'.base = intent.base
        BY ApprovalsNext
    <1>c. ASSUME UNCHANGED call PROVE MergesCovered'
        <2>1. ASSUME NEW d \in Calls PROVE Covered(call[d])'
            <3>1. PICK s : s = call[d]
                OBVIOUS
            <3>2. Covered(s)'
                BY <1>a, <1>b, <3>1, CoveredStays DEF MergesCovered
            <3> QED BY <1>c, <3>1, <3>2 DEF Covered
        <2> QED BY <2>1 DEF MergesCovered
    <1>d. ASSUME NEW c \in Calls, NEW r, call' = [call EXCEPT ![c] = r],
                 r.phase \notin {"prepared", "checked", "mergeable"} \/ r.kind # "merge"
          PROVE  MergesCovered'
        BY <1>a, <1>b, <1>d, CoveredUpdate, Uncovered
    <1>1. ASSUME NEW c \in Calls, Ends(c) PROVE MergesCovered'
        <2>1. Idle.phase = "idle" /\ call' = [call EXCEPT ![c] = Idle]
            BY <1>1 DEF Ends, Idle
        <2> QED BY <1>d, <2>1
    <1>2. ASSUME NEW c \in Calls, NEW p \in {"uncertain", "rejected", "completed"}, Settles(c, p)
          PROVE  MergesCovered'
        <2> DEFINE r == [Idle EXCEPT !.kind = call[c].kind, !.phase = p]
        <2>1. r.phase = p
            BY DEF Idle
        <2>2. call' = [call EXCEPT ![c] = r]
            BY <1>2 DEF Settles
        <2> HIDE DEF r
        <2> QED BY <1>d, <2>1, <2>2
    <1>3. ASSUME NEW c \in Calls, NEW k, NEW n, NEW q, Answered(c, k, n, q) PROVE MergesCovered'
        <2> DEFINE r == [Idle EXCEPT !.kind = k, !.phase = "done", !.number = n, !.pull = q,
                                     !.checks = github.checks]
        <2>1. r.phase = "done"
            BY DEF Idle
        <2>2. call' = [call EXCEPT ![c] = r]
            BY <1>3 DEF Answered
        <2> HIDE DEF r
        <2> QED BY <1>d, <2>1, <2>2
    <1>4. ASSUME NEW c \in Calls, NEW n, NEW q, Delivered(c, n, q) PROVE MergesCovered'
        BY <1>2, <1>3, <1>4 DEF Delivered, Unanswered
    <1>5. ASSUME NEW c \in Calls, EnsureChecks(c) PROVE MergesCovered'
        <2> DEFINE r == [Idle EXCEPT !.kind = "approve", !.phase = "ensured",
                                     !.revision = intent.revision]
        <2>1. r.kind = "approve"
            BY DEF Idle
        <2>2. call' = [call EXCEPT ![c] = r]
            BY <1>5 DEF EnsureChecks
        <2> HIDE DEF r
        <2> QED BY <1>d, <2>1, <2>2
    <1>6. ASSUME NEW c \in Calls, Prepare(c, "create") PROVE MergesCovered'
        <2> DEFINE r == [Idle EXCEPT !.kind = "create", !.phase = "prepared"]
        <2>1. r.kind = "create"
            BY DEF Idle
        <2>2. call' = [call EXCEPT ![c] = r]
            BY <1>6 DEF Prepare
        <2> HIDE DEF r
        <2> QED BY <1>d, <2>1, <2>2
    <1>7. ASSUME NEW c \in Calls, Prepare(c, "merge") PROVE MergesCovered'
        <2> DEFINE r == [Idle EXCEPT !.kind = "merge", !.phase = "prepared"]
        <2>1. r.phase = "prepared"
            BY DEF Idle
        <2>2. call' = [call EXCEPT ![c] = r]
            BY <1>7 DEF Prepare
        <2>3. ApprovedFor(intent.base)
            BY <1>7 DEF Prepare, MayExecute, Standing, ApprovedFor
        <2>4. intent'.approvals = intent.approvals /\ intent'.base = intent.base
            BY <1>7 DEF Prepare, Shaped, TypeOK, Intent
        <2>5. \E a \in intent'.approvals : a.action = "merge" /\ a.base = intent'.base
            BY <2>3, <2>4 DEF ApprovedFor
        <2> HIDE DEF r
        <2>6. Covered(r)'
            BY <2>1, <2>5 DEF Covered, ApprovedFor
        <2> QED BY <1>a, <1>b, <2>2, <2>6, CoveredUpdate
    <1>8. ASSUME NEW c \in Calls, CheckRefs(c) PROVE MergesCovered'
        <2> DEFINE r == [Idle EXCEPT !.kind = call[c].kind, !.phase = "checked",
                                     !.base = github.base, !.number = intent.number]
                   m == [Idle EXCEPT !.kind = "create", !.phase = "moved", !.base = github.base]
        <2>1. /\ r.kind = call[c].kind /\ r.phase = "checked" /\ r.base = github.base
              /\ m.kind = "create"
            BY DEF Idle
        <2>2. \/ github.base = intent.base /\ call' = [call EXCEPT ![c] = r]
              \/ call' = [call EXCEPT ![c] = m]
              \/ Settles(c, "rejected")
            BY <1>8 DEF CheckRefs, BaseStands
        <2> HIDE DEF r, m
        <2>3. CASE github.base = intent.base /\ call' = [call EXCEPT ![c] = r]
            <3>1. call[c].kind = "merge" => ApprovedFor(github.base)
                BY <1>8, <2>3 DEF CheckRefs, MergesCovered, Covered
            <3>2. PICK s : s = r
                OBVIOUS
            <3>3. s.kind = "merge" =>
                      \E a \in intent'.approvals : a.action = "merge" /\ a.base = s.base
                BY <1>a, <2>1, <3>1, <3>2 DEF ApprovedFor
            <3>4. Covered(s)'
                BY <2>1, <3>2, <3>3 DEF Covered, ApprovedFor
            <3> QED BY <1>a, <1>b, <2>3, <3>2, <3>4, CoveredUpdate
        <2>4. CASE call' = [call EXCEPT ![c] = m]
            BY <1>d, <2>1, <2>4
        <2> QED BY <1>2, <2>2, <2>3, <2>4
    <1>9. ASSUME NEW c \in Calls, RequestFails(c) PROVE MergesCovered'
        BY <1>2, <1>9 DEF RequestFails, Unanswered, Refused
    <1>10. ASSUME NEW c \in Calls, OpenPull(c) PROVE MergesCovered'
        BY <1>2, <1>4, <1>10 DEF OpenPull, Refused
    <1>11. ASSUME NEW c \in Calls, ReadyPull(c) PROVE MergesCovered'
        <2>1. CASE Goes(c, "mergeable")
            <3> DEFINE r == [call[c] EXCEPT !.phase = "mergeable"]
            <3>1. r.kind = call[c].kind /\ r.phase = "mergeable" /\ r.base = call[c].base
                BY CallFields DEF Shaped, Call
            <3>2. call' = [call EXCEPT ![c] = r]
                BY <2>1 DEF Goes
            <3>3. ApprovedFor(call[c].base)
                BY <1>11 DEF ReadyPull, At, MergesCovered, Covered
            <3> HIDE DEF r
            <3>4. PICK s : s = r
                OBVIOUS
            <3>5. \E a \in intent'.approvals : a.action = "merge" /\ a.base = s.base
                BY <1>a, <3>1, <3>3, <3>4 DEF ApprovedFor
            <3>6. Covered(s)'
                BY <3>1, <3>4, <3>5 DEF Covered, ApprovedFor
            <3> QED BY <1>a, <1>b, <3>2, <3>4, <3>6, CoveredUpdate
        <2> QED BY <1>2, <1>11, <2>1 DEF ReadyPull, Unanswered
    <1>12. ASSUME NEW c \in Calls, MergePull(c) PROVE MergesCovered'
        BY <1>2, <1>4, <1>12 DEF MergePull
    <1>13. ASSUME NEW c \in Calls, Complete(c) PROVE MergesCovered'
        BY <1>2, <1>13 DEF Complete
    <1>14. ASSUME NEW c \in Calls,
                  ApproveMerge(c) \/ RefreshBase(c) \/ Fail(c) \/ ApplySnapshot(c)
           PROVE  MergesCovered'
        BY <1>1, <1>14 DEF ApproveMerge, RefreshBase, Fail, ApplySnapshot
    <1>15. ASSUME NEW c \in Calls, Advance(c) PROVE MergesCovered'
        BY <1>1, <1>c, <1>15 DEF Advance
    <1>16. ASSUME NEW c \in Calls, ReadSnapshot(c) PROVE MergesCovered'
        BY <1>3, <1>16 DEF ReadSnapshot
    <1>17. CASE Restart
        BY <1>17 DEF Restart, MergesCovered, Covered, Idle
    <1>18. CASE ApproveCreate \/ Revoke \/ Resume \/ ByHand \/ Expire
        BY <1>18, <1>c DEF ApproveCreate, Revoke, Resume, ByHand, Expire
    <1>19. ASSUME NEW h \in hooks, Webhook(h) PROVE MergesCovered'
        BY <1>19, <1>c DEF Webhook
    <1> QED BY <1>5, <1>6, <1>7, <1>8, <1>9, <1>10, <1>11, <1>12, <1>13, <1>14, <1>15, <1>16, <1>17,
               <1>18, <1>19 DEF Next, Execute

(* However approvals, moves of the base, snapshots, webhooks, failed calls *)
(* and restarts interleave, a call that readies or merges the request does *)
(* so over an approval of a merge into the base that it found.             *)
THEOREM MergesOverApproval == Spec => MergesApproved
    <1> DEFINE I == Shaped /\ Approvals /\ MergesCovered
               A == \A c \in Calls :
                        (call[c].kind = "merge" /\ call[c].phase \in {"checked", "mergeable"}
                            /\ github'.pull # github.pull /\ call'[c] # call[c])
                        => \E a \in intent.approvals : a.action = "merge" /\ a.base = call[c].base
    <1>1. Init => I
        <2> SUFFICES ASSUME Init PROVE I
            OBVIOUS
        <2>1. Shaped
            BY TypeInit DEF Shaped
        <2>2. Approvals /\ MergesCovered
            BY DEF Init, Approvals, HasMerge, MergesCovered, Covered, Idle
        <2> QED BY <2>1, <2>2
    <1>2. I /\ [Next]_vars => I'
        <2> SUFFICES ASSUME I, [Next]_vars PROVE I'
            OBVIOUS
        <2>1. CASE Next
            BY <2>1, TypeNext, ApprovalsNext, CoveredNext
        <2>2. CASE UNCHANGED vars
            BY <2>2 DEF vars, Shaped, TypeOK, CallShape, PullShape, Approvals, HasMerge,
                MergesCovered, Covered, ApprovedFor
        <2> QED BY <2>1, <2>2
    <1>3. I => A
        BY DEF MergesCovered, Covered, ApprovedFor
    <1>4. Spec => [][A]_vars
        BY <1>1, <1>2, <1>3, PTL DEF Spec
    <1> QED BY <1>4 DEF MergesApproved
===============================================================================
