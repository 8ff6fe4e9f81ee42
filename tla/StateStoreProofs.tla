-------------------------- MODULE StateStoreProofs --------------------------
(***************************************************************************)
(* Proofs about the state store: as long as all writes are of one process, *)
(* whoever else may read, the store is one serial value, for any number of *)
(* calls, of faults and of starts.                                         *)
(*                                                                         *)
(* The inductive invariant follows a write from the queue to its answer:   *)
(* only the head of the queue is at work, it has at most one message on    *)
(* the way, and until its transaction nothing but it changes the database, *)
(* so what it was drafted on is what it finds.                             *)
(***************************************************************************)
EXTENDS StateStore, SequenceTheorems, TLAPS

(* All the writes are of one process; any process may read.                *)
OneWriter == \A v, w \in Writes : Owner[v] = Owner[w]

-----------------------------------------------------------------------------
(* The inductive invariant.                                                *)

(* What a worker may answer.                                               *)
Answers == {"initialize", "revision", "read", "closed", "committed", "conflict", "failed"}

(* x was the state of the database once, and is still if its revision is.  *)
Past(x) == x.rev <= db.rev /\ (x.rev = db.rev => x = db)

(* The operation of w has begun.                                           *)
Active(w) == phase[w] \in {"refresh", "draft", "sent"}

(* What a caller was told agrees with how far its call has come.           *)
Told ==
    \A w \in Writes :
        /\ answer[w] = "none" <=> phase[w] = "idle"
        /\ answer[w] = "pending" <=> phase[w] = "queued" \/ Active(w)

Chain == \A w \in Writes : Active(w) => Turn(w)

(* A write not yet sent is not in the database, and is drafted on what is. *)
Drafts ==
    \A w \in Writes :
        /\ phase[w] \in {"idle", "queued", "refresh", "draft"} => w \notin db.val
        /\ phase[w] = "draft" => base[w] = db

(* A request in the inbox of p, and an answer in its outbox.               *)
Asked(p, m) ==
    IF m.from \in Writes
    THEN /\ Owner[m.from] = p
         /\ \/ /\ m.type \in {"revision", "read"}
               /\ phase[m.from] = "refresh"
            \/ /\ m.type = "apply"
               /\ phase[m.from] = "sent"
               /\ m.snap = db /\ m.from \notin db.val
    ELSE m.type \in {"initialize", "revision", "read", "close"}

Answered(p, m) ==
    /\ Past(m.snap)
    /\ IF m.from \in Writes
       THEN /\ Owner[m.from] = p
            /\ \/ /\ m.type \in {"revision", "read"}
                  /\ phase[m.from] = "refresh" /\ m.snap = db
               \/ /\ m.type = "committed"
                  /\ phase[m.from] = "sent" /\ m.snap = db /\ m.from \in db.val
               \/ /\ m.type = "failed"
                  /\ phase[m.from] = "sent"
       ELSE m.type \in {"initialize", "revision", "read", "closed"}

Messages ==
    \A p \in Procs :
        /\ \A i \in 1..Len(inbox[p]) : Asked(p, inbox[p][i])
        /\ \A i \in 1..Len(outbox[p]) : Answered(p, outbox[p][i])

(* A process has at most one message of a write on the way.                *)
Quiet(box) == \A i \in 1..Len(box) : box[i].from \notin Writes

Few(in, out) ==
    /\ \A i, j \in 1..Len(in) : in[i].from \in Writes /\ in[j].from \in Writes => i = j
    /\ \A i, j \in 1..Len(out) : out[i].from \in Writes /\ out[j].from \in Writes => i = j
    /\ Quiet(in) \/ Quiet(out)

OneMessage == \A p \in Procs : Few(inbox[p], outbox[p])

Caches == \A p \in Procs : Past(cache[p])

Checked ==
    \A p \in Procs : checked[p] => inbox[p] # <<>> /\ Head(inbox[p]).type = "apply"

StoreInv == TypeOK /\ Told /\ Chain /\ Drafts /\ Messages /\ OneMessage /\ Caches /\ Checked

-----------------------------------------------------------------------------
(* Boxes and queues.                                                       *)

Longer(old, new, e) ==
    /\ Len(old) \in Nat /\ Len(new) = Len(old) + 1
    /\ \A i \in 1..Len(old) : new[i] = old[i]
    /\ new[Len(old) + 1] = e

Shorter(old, new) ==
    /\ Len(old) \in Nat \ {0} /\ Len(new) = Len(old) - 1
    /\ \A i \in 1..Len(new) : new[i] = old[i + 1]

(* What Append and Tail do to a box of messages or to a queue.             *)
LEMMA Appended ==
    ASSUME NEW S, NEW s \in Seq(S), NEW e \in S
    PROVE  /\ Append(s, e) \in Seq(S)
           /\ Longer(s, Append(s, e), e)
           /\ s # <<>> => Append(s, e) # <<>> /\ Head(Append(s, e)) = Head(s)
    BY DEF Longer

(* The messages behind the first.                                          *)
LEMMA Tailed ==
    ASSUME NEW S, NEW s \in Seq(S), s # <<>>
    PROVE  /\ Tail(s) \in Seq(S) /\ Head(s) \in S
           /\ Head(s) = s[1]
           /\ Shorter(s, Tail(s))
    BY DEF Shorter

(* Every element of the longer box is an old one or the new one; every     *)
(* element of the shorter box is an old one, and none is the first.        *)
LEMMA LongerElements ==
    ASSUME NEW a, NEW b, NEW e, Longer(a, b, e), NEW i \in 1..Len(b)
    PROVE  (i \in 1..Len(a) /\ b[i] = a[i]) \/ (i = Len(a) + 1 /\ b[i] = e)
    BY DEF Longer

(* Taking the first message moves the others up by one.                    *)
LEMMA ShorterElements ==
    ASSUME NEW a, NEW b, Shorter(a, b)
    PROVE  /\ 1 \in 1..Len(a)
           /\ \A i \in 1..Len(b) : i + 1 \in 1..Len(a) /\ i + 1 # 1 /\ b[i] = a[i + 1]
    BY DEF Shorter

(* Few survives a message that is posted, taken, or answered.              *)
LEMMA FewLonger ==
    ASSUME NEW a, NEW b, NEW c, NEW e, Few(a, b), Longer(a, c, e),
           e.from \notin Writes \/ (Quiet(a) /\ Quiet(b))
    PROVE  Few(c, b)
    <1>1. Len(c) = Len(a) + 1 /\ Len(a) \in Nat
        BY DEF Longer
    <1>2. \A i \in 1..Len(c) : (i \in 1..Len(a) /\ c[i] = a[i]) \/ (i = Len(a) + 1 /\ c[i] = e)
        BY LongerElements
    <1> QED BY <1>1, <1>2 DEF Few, Quiet

(* Serving a message leaves no more than one of a write on the way.        *)
LEMMA FewShorter ==
    ASSUME NEW a, NEW b, NEW c, Few(a, b), Shorter(b, c)
    PROVE  /\ Few(a, c)
           /\ b[1].from \in Writes => Quiet(a) /\ Quiet(c)
    <1>1. Len(b) \in Nat /\ Len(c) \in Nat
        BY DEF Shorter
    <1>2. /\ 1 \in 1..Len(b)
          /\ \A i \in 1..Len(c) : i + 1 \in 1..Len(b) /\ i + 1 # 1 /\ c[i] = b[i + 1]
        BY ShorterElements
    <1>3. ASSUME NEW i \in 1..Len(c), NEW j \in 1..Len(c),
                 c[i].from \in Writes, c[j].from \in Writes
          PROVE  i = j
        <2>1. i + 1 = j + 1
            BY <1>2, <1>3 DEF Few
        <2> QED BY <1>1, <2>1
    <1>4. Quiet(b) => Quiet(c)
        BY <1>2 DEF Quiet
    <1>5. b[1].from \in Writes => Quiet(a) /\ Quiet(c)
        <2>1. b[1].from \in Writes => Quiet(a)
            BY <1>2 DEF Few, Quiet
        <2>2. ASSUME b[1].from \in Writes, NEW i \in 1..Len(c), c[i].from \in Writes PROVE FALSE
            BY <1>2, <2>2 DEF Few
        <2> QED BY <2>1, <2>2 DEF Quiet
    <1> QED BY <1>3, <1>4, <1>5 DEF Few

(* It does not matter which of the two boxes comes first.                  *)
LEMMA FewSwap ==
    ASSUME NEW a, NEW b, Few(a, b) PROVE Few(b, a)
    BY DEF Few

(* An answer takes the message of one box into the other.                  *)
LEMMA FewMove ==
    ASSUME NEW a, NEW b, NEW a2, NEW b2, NEW e, Few(a, b), Shorter(a, a2), Longer(b, b2, e),
           e.from = a[1].from
    PROVE  Few(a2, b2) /\ (a[1].from \in Writes => Quiet(a2) /\ Quiet(b))
    <1>1. Few(b, a2) /\ (a[1].from \in Writes => Quiet(b) /\ Quiet(a2))
        BY FewSwap, FewShorter
    <1>2. Few(b2, a2)
        BY <1>1, FewLonger
    <1> QED BY <1>1, <1>2, FewSwap

(* What request() does to the inbox of a worker.                           *)
LEMMA Posted ==
    ASSUME TypeOK, NEW p \in Procs, NEW m \in Message, Post(p, m)
    PROVE  /\ inbox' \in [Procs -> Seq(Message)]
           /\ Longer(inbox[p], inbox'[p], m)
           /\ inbox[p] # <<>> => inbox'[p] # <<>> /\ Head(inbox'[p]) = Head(inbox[p])
           /\ \A q \in Procs : q # p => inbox'[q] = inbox[q]
    <1>1. inbox[p] \in Seq(Message) /\ inbox'[p] = Append(inbox[p], m)
        BY DEF TypeOK, Post
    <1>2. inbox' \in [Procs -> Seq(Message)] /\ \A q \in Procs : q # p => inbox'[q] = inbox[q]
        BY <1>1, Appended DEF TypeOK, Post
    <1> QED BY <1>1, <1>2, Appended

(* What the answer of a worker does to its inbox and to its outbox.        *)
LEMMA Replied ==
    ASSUME TypeOK, NEW p \in Procs, inbox[p] # <<>>,
           NEW t \in Answers,
           NEW s \in Snapshot, Reply(p, Head(inbox[p]), t, s)
    PROVE  /\ inbox' \in [Procs -> Seq(Message)] /\ outbox' \in [Procs -> Seq(Message)]
           /\ Head(inbox[p]) = inbox[p][1] /\ inbox[p][1] \in Message
           /\ Shorter(inbox[p], inbox'[p])
           /\ Longer(outbox[p], outbox'[p], Request(inbox[p][1].from, t, s))
           /\ Request(inbox[p][1].from, t, s) \in Message
           /\ \A q \in Procs : q # p => inbox'[q] = inbox[q] /\ outbox'[q] = outbox[q]
    <1>1. /\ inbox[p] \in Seq(Message) /\ inbox'[p] = Tail(inbox[p])
          /\ outbox[p] \in Seq(Message)
          /\ outbox'[p] = Append(outbox[p], Request(Head(inbox[p]).from, t, s))
        BY DEF TypeOK, Reply
    <1>2. /\ Head(inbox[p]) = inbox[p][1] /\ inbox[p][1] \in Message
          /\ Shorter(inbox[p], inbox'[p])
          /\ Tail(inbox[p]) \in Seq(Message)
        BY <1>1, Tailed
    <1>3. Request(inbox[p][1].from, t, s) \in Message
        BY <1>2 DEF Answers, Request, Message
    <1>4. /\ Append(outbox[p], Request(inbox[p][1].from, t, s)) \in Seq(Message)
          /\ Longer(outbox[p], outbox'[p], Request(inbox[p][1].from, t, s))
        BY <1>1, <1>2, <1>3, Appended
    <1>5. inbox' \in [Procs -> Seq(Message)]
        BY <1>2 DEF Reply, TypeOK
    <1>6. outbox' \in [Procs -> Seq(Message)]
        BY <1>1, <1>2, <1>4 DEF Reply, TypeOK
    <1>7. \A q \in Procs : q # p => inbox'[q] = inbox[q] /\ outbox'[q] = outbox[q]
        BY DEF Reply, TypeOK
    <1> QED BY <1>2, <1>3, <1>4, <1>5, <1>6, <1>7

(* What the delivery of an answer does to the outbox.                      *)
LEMMA Taken ==
    ASSUME TypeOK, NEW p \in Procs, outbox[p] # <<>>, outbox' = [outbox EXCEPT ![p] = Tail(@)]
    PROVE  /\ outbox' \in [Procs -> Seq(Message)]
           /\ Head(outbox[p]) = outbox[p][1] /\ outbox[p][1] \in Message
           /\ Shorter(outbox[p], outbox'[p])
           /\ \A q \in Procs : q # p => outbox'[q] = outbox[q]
    <1> DEFINE s == outbox[p]
    <1>1. s \in Seq(Message) /\ outbox'[p] = Tail(s) /\ s # <<>>
        BY DEF TypeOK
    <1>2. Head(s) = s[1] /\ s[1] \in Message /\ Shorter(s, Tail(s)) /\ Tail(s) \in Seq(Message)
        <2> HIDE DEF s
        <2>1. Head(s) \in Message /\ Head(s) = s[1]
            BY <1>1, Tailed
        <2> QED BY <1>1, <2>1, Tailed
    <1>3. outbox' \in [Procs -> Seq(Message)]
        BY <1>2 DEF TypeOK
    <1>4. \A q \in Procs : q # p => outbox'[q] = outbox[q]
        BY DEF TypeOK
    <1> QED BY <1>1, <1>2, <1>3, <1>4

(* What the settling of calls does to the queue.                           *)
LEMMA Advanced ==
    ASSUME TypeOK, NEW p \in Procs, NEW T, Advance(p, T)
    PROVE  /\ queue' \in [Procs -> Seq(Writes)]
           /\ \A q \in Procs : q # p => queue'[q] = queue[q]
           /\ queue[p] # <<>> /\ Head(queue[p]) \notin T => queue'[p] = queue[p]
    <1>1. queue[p] \in Seq(Writes)
        BY DEF TypeOK
    <1>2. queue'[p] \in Seq(Writes)
        BY <1>1, Tailed DEF Advance, TypeOK
    <1> QED BY <1>1, <1>2 DEF Advance, TypeOK

(* Of the writes of one process only the head of the queue is at work.     *)
LEMMA Alone ==
    ASSUME OneWriter, StoreInv, NEW v \in Writes, NEW w \in Writes, Active(v), Turn(w)
    PROVE  v = w
    BY DEF OneWriter, StoreInv, Chain, Turn

(* While the head of the queue has nothing posted, no write has.           *)
LEMMA NoMessage ==
    ASSUME OneWriter, StoreInv, NEW w \in Writes, Turn(w), phase[w] \notin {"refresh", "sent"},
           NEW p \in Procs
    PROVE  Quiet(inbox[p]) /\ Quiet(outbox[p])
    <1>1. ASSUME NEW i \in 1..Len(inbox[p]), inbox[p][i].from \in Writes PROVE FALSE
        <2>1. phase[inbox[p][i].from] \in {"refresh", "sent"}
            BY <1>1 DEF StoreInv, Messages, Asked
        <2> QED BY <1>1, <2>1, Alone DEF Active
    <1>2. ASSUME NEW i \in 1..Len(outbox[p]), outbox[p][i].from \in Writes PROVE FALSE
        <2>1. phase[outbox[p][i].from] \in {"refresh", "sent"}
            BY <1>2 DEF StoreInv, Messages, Answered
        <2> QED BY <1>2, <2>1, Alone DEF Active
    <1> QED BY <1>1, <1>2 DEF Quiet

-----------------------------------------------------------------------------
(* Messages.                                                               *)

(* The types of a message, of the empty snapshot and of what is in a box.  *)
LEMMA RequestTypes ==
    ASSUME NEW c \in Calls \cup Procs,
           NEW t \in {"initialize", "revision", "read", "apply", "close",
                      "closed", "committed", "conflict", "failed"}, NEW s \in Snapshot
    PROVE  /\ Request(c, t, s) \in Message
           /\ Request(c, t, s).from = c /\ Request(c, t, s).type = t /\ Request(c, t, s).snap = s
    BY DEF Request, Message

(* The snapshot of a process that has read nothing yet is typed.           *)
LEMMA EmptyTypes == Empty \in Snapshot
    BY DEF Empty, Snapshot

(* The messages of a process are messages.                                 *)
LEMMA BoxTypes ==
    ASSUME TypeOK, NEW p \in Procs
    PROVE  /\ Len(inbox[p]) \in Nat /\ \A i \in 1..Len(inbox[p]) : inbox[p][i] \in Message
           /\ Len(outbox[p]) \in Nat /\ \A i \in 1..Len(outbox[p]) : outbox[p][i] \in Message
    BY DEF TypeOK

(* A message of a read, of a start or of a shutdown is posted: it disturbs *)
(* no write.                                                               *)
LEMMA PostedBeside ==
    ASSUME StoreInv, NEW p \in Procs, NEW m \in Message, m.from \notin Writes,
           m.type \in {"initialize", "revision", "read", "close"}, Post(p, m),
           UNCHANGED <<outbox, db>>, \A w \in Writes : phase'[w] = phase[w]
    PROVE  Messages' /\ OneMessage' /\ (UNCHANGED checked => Checked')
    <1> TypeOK /\ Messages /\ OneMessage /\ Checked
        BY DEF StoreInv
    <1>0. /\ Longer(inbox[p], inbox'[p], m)
          /\ inbox[p] # <<>> => inbox'[p] # <<>> /\ Head(inbox'[p]) = Head(inbox[p])
          /\ \A q \in Procs : q # p => inbox'[q] = inbox[q]
        BY Posted
    <1>1. ASSUME NEW q \in Procs, NEW n, Asked(q, n) PROVE Asked(q, n)'
        BY <1>1 DEF Asked
    <1>2. ASSUME NEW q \in Procs, NEW n, Answered(q, n) PROVE Answered(q, n)'
        BY <1>2 DEF Answered, Past
    <1>3. Asked(p, m)'
        BY DEF Asked
    <1>4. Messages'
        <2>1. ASSUME NEW q \in Procs, NEW i \in 1..Len(inbox'[q]) PROVE Asked(q, inbox[q][i])'
            BY <2>1, <1>0, <1>1, <1>3, LongerElements DEF Messages
        <2>2. ASSUME NEW q \in Procs, NEW i \in 1..Len(outbox'[q]) PROVE Answered(q, outbox[q][i])'
            BY <2>2, <1>2 DEF Messages
        <2> QED BY <2>1, <2>2 DEF Messages
    <1>5. OneMessage'
        <2>1. ASSUME NEW q \in Procs PROVE Few(inbox'[q], outbox'[q])
            <3>1. Few(inbox[q], outbox[q])
                BY DEF OneMessage
            <3>2. CASE q = p
                BY <1>0, <3>1, <3>2, FewLonger
            <3>3. CASE q # p
                BY <1>0, <3>1, <3>3
            <3> QED BY <3>2, <3>3
        <2> QED BY <2>1 DEF OneMessage
    <1>6. UNCHANGED checked => Checked'
        BY <1>0 DEF Checked
    <1> QED BY <1>4, <1>5, <1>6

(* The head of the queue posts a message: it is the only one of a write.   *)
LEMMA PostedAlone ==
    ASSUME OneWriter, StoreInv, NEW w \in Writes, Turn(w), phase[w] \notin {"refresh", "sent"},
           NEW p \in Procs, NEW m \in Message, m.from = w, Asked(p, m)', Post(p, m),
           UNCHANGED <<outbox, db>>
    PROVE  Messages' /\ OneMessage' /\ (UNCHANGED checked => Checked')
    <1> TypeOK /\ Messages /\ OneMessage /\ Checked
        BY DEF StoreInv
    <1>0. /\ Longer(inbox[p], inbox'[p], m)
          /\ inbox[p] # <<>> => inbox'[p] # <<>> /\ Head(inbox'[p]) = Head(inbox[p])
          /\ \A q \in Procs : q # p => inbox'[q] = inbox[q]
        BY Posted
    <1>1. \A q \in Procs : Quiet(inbox[q]) /\ Quiet(outbox[q])
        BY NoMessage
    <1>2. ASSUME NEW q \in Procs, NEW n, n.from \notin Writes, Asked(q, n) PROVE Asked(q, n)'
        BY <1>2 DEF Asked
    <1>3. ASSUME NEW q \in Procs, NEW n, n.from \notin Writes, Answered(q, n) PROVE Answered(q, n)'
        BY <1>3 DEF Answered, Past
    <1>4. Messages'
        <2>1. ASSUME NEW q \in Procs, NEW i \in 1..Len(inbox[q])
              PROVE  inbox[q][i].from \notin Writes /\ Asked(q, inbox[q][i])
            BY <1>1 DEF Messages, Quiet
        <2>2. ASSUME NEW q \in Procs, NEW i \in 1..Len(inbox'[q]) PROVE Asked(q, inbox[q][i])'
            BY <2>1, <2>2, <1>0, <1>2, LongerElements
        <2>3. ASSUME NEW q \in Procs, NEW i \in 1..Len(outbox'[q]) PROVE Answered(q, outbox[q][i])'
            BY <2>3, <1>1, <1>3 DEF Messages, Quiet
        <2> QED BY <2>2, <2>3 DEF Messages
    <1>5. OneMessage'
        <2>1. ASSUME NEW q \in Procs PROVE Few(inbox'[q], outbox'[q])
            <3>1. Few(inbox[q], outbox[q])
                BY DEF OneMessage
            <3>2. CASE q = p
                BY <1>0, <1>1, <3>1, <3>2, FewLonger
            <3>3. CASE q # p
                BY <1>0, <3>1, <3>3
            <3> QED BY <3>2, <3>3
        <2> QED BY <2>1 DEF OneMessage
    <1>6. UNCHANGED checked => Checked'
        BY <1>0 DEF Checked
    <1> QED BY <1>4, <1>5, <1>6

(* The worker answers the head of its inbox; a commit that goes with it    *)
(* meets no other message of a write.                                      *)
LEMMA Replies ==
    ASSUME OneWriter, StoreInv, NEW p \in Procs, inbox[p] # <<>>,
           NEW t \in Answers,
           NEW s \in Snapshot, Reply(p, Head(inbox[p]), t, s), UNCHANGED phase,
           \/ UNCHANGED db
           \/ /\ db.rev \in Nat /\ db'.rev \in Nat /\ db.rev < db'.rev
              /\ inbox[p][1].from \in Writes,
           \A n : n = Request(inbox[p][1].from, t, s) => Answered(p, n)'
    PROVE  Messages' /\ OneMessage'
    <1> TypeOK /\ Messages /\ OneMessage
        BY DEF StoreInv
    <1> DEFINE f == inbox[p][1].from
               e == Request(f, t, s)
               in == inbox[p]
               out == outbox[p]
    <1>0. /\ Shorter(inbox[p], inbox'[p])
          /\ Longer(outbox[p], outbox'[p], e)
          /\ \A q \in Procs : q # p => inbox'[q] = inbox[q] /\ outbox'[q] = outbox[q]
        BY Replied
    <1>1. e.from = f
        BY DEF Request
    <1>2. \A q \in Procs : Few(inbox[q], outbox[q])
        BY DEF OneMessage
    <1>3. /\ Few(inbox'[p], outbox'[p])
          /\ f \in Writes => Quiet(inbox'[p]) /\ Quiet(outbox[p])
        BY <1>0, <1>1, <1>2, FewMove
    <1>4. ASSUME f \in Writes, NEW q \in Procs, q # p PROVE Quiet(inbox[q]) /\ Quiet(outbox[q])
        <2>1. Owner[f] = p
            BY <1>0, <1>4, ShorterElements DEF Messages, Asked
        <2>2. ASSUME NEW i \in 1..Len(inbox[q]), inbox[q][i].from \in Writes PROVE FALSE
            BY <1>4, <2>1, <2>2 DEF Messages, Asked, OneWriter
        <2>3. ASSUME NEW i \in 1..Len(outbox[q]), outbox[q][i].from \in Writes PROVE FALSE
            BY <1>4, <2>1, <2>3 DEF Messages, Answered, OneWriter
        <2> QED BY <2>2, <2>3 DEF Quiet
    <1>5. ASSUME NEW q \in Procs, NEW n, Asked(q, n), UNCHANGED db \/ n.from \notin Writes
          PROVE Asked(q, n)'
        BY <1>5 DEF Asked
    <1>6. ASSUME NEW q \in Procs, NEW n \in Message, Answered(q, n),
                 UNCHANGED db \/ n.from \notin Writes
          PROVE Answered(q, n)'
        <2>1. Past(n.snap)'
            BY <1>6 DEF Answered, Past, Message, Snapshot
        <2> QED BY <2>1, <1>6 DEF Answered
    <1>7. ASSUME NEW q \in Procs, NEW i \in 1..Len(inbox'[q]) PROVE Asked(q, inbox[q][i])'
        <2>1. CASE q # p
            <3>1. inbox'[q] = inbox[q] /\ Asked(q, inbox[q][i])
                BY <1>0, <1>7, <2>1 DEF Messages
            <3>2. UNCHANGED db \/ inbox[q][i].from \notin Writes
                BY <1>4, <1>7, <2>1, <3>1 DEF Quiet
            <3> QED BY <1>5, <3>1, <3>2
        <2>2. CASE q = p
            <3>1. i + 1 \in 1..Len(inbox[p]) /\ inbox'[p][i] = inbox[p][i + 1]
                BY <1>0, <1>7, <2>2, ShorterElements
            <3>2. Asked(p, inbox'[p][i])
                BY <3>1 DEF Messages
            <3>3. UNCHANGED db \/ inbox'[p][i].from \notin Writes
                BY <1>3, <1>7, <2>2 DEF Quiet
            <3> QED BY <1>5, <2>2, <3>2, <3>3
        <2> QED BY <2>1, <2>2
    <1>8. ASSUME NEW q \in Procs, NEW i \in 1..Len(outbox[q]), NEW n, n = outbox[q][i]
          PROVE  Answered(q, n)'
        <2>1. n \in Message /\ Answered(q, n)
            BY <1>8, BoxTypes DEF Messages
        <2>2. UNCHANGED db \/ n.from \notin Writes
            BY <1>3, <1>4, <1>8 DEF Quiet
        <2> QED BY <2>1, <2>2, <1>6
    <1>9. \A n : n = e => Answered(p, n)'
        OBVIOUS
    <1>10. Messages'
        <2>1. ASSUME NEW q \in Procs, NEW i \in 1..Len(outbox'[q]) PROVE Answered(q, outbox[q][i])'
            <3>1. CASE q = p /\ i = Len(outbox[p]) + 1
                BY <1>0, <1>9, <3>1 DEF Longer
            <3>2. CASE ~(q = p /\ i = Len(outbox[p]) + 1)
                <4>1. i \in 1..Len(outbox[q]) /\ outbox'[q][i] = outbox[q][i]
                    BY <1>0, <2>1, <3>2, LongerElements
                <4> QED BY <1>8, <4>1
            <3> QED BY <3>1, <3>2
        <2> QED BY <1>7, <2>1 DEF Messages
    <1>11. OneMessage'
        <2>1. ASSUME NEW q \in Procs PROVE Few(inbox'[q], outbox'[q])
            BY <1>0, <1>2, <1>3, <2>1
        <2> QED BY <2>1 DEF OneMessage
    <1> QED BY <1>10, <1>11

(* Nothing moves between the API side and the worker.                      *)
LEMMA Still ==
    ASSUME StoreInv, UNCHANGED <<inbox, outbox, db, checked>>,
           \A w \in Writes : phase[w] \in {"refresh", "sent"} => phase'[w] = phase[w]
    PROVE  Messages' /\ OneMessage' /\ Checked'
    <1>1. ASSUME NEW q, NEW n, Asked(q, n) PROVE Asked(q, n)'
        BY <1>1 DEF Asked
    <1>2. ASSUME NEW q, NEW n, Answered(q, n) PROVE Answered(q, n)'
        BY <1>2 DEF Answered, Past
    <1>3. Messages'
        <2>1. ASSUME NEW q \in Procs, NEW i \in 1..Len(inbox'[q]) PROVE Asked(q, inbox[q][i])'
            BY <2>1, <1>1 DEF StoreInv, Messages
        <2>2. ASSUME NEW q \in Procs, NEW i \in 1..Len(outbox'[q]) PROVE Answered(q, outbox[q][i])'
            BY <2>2, <1>2 DEF StoreInv, Messages
        <2> QED BY <2>1, <2>2 DEF Messages
    <1>4. OneMessage' /\ Checked'
        BY DEF StoreInv, OneMessage, Checked
    <1> QED BY <1>3, <1>4

(* Both boxes of a process are dropped.                                    *)
LEMMA Cleared ==
    ASSUME StoreInv, NEW p \in Procs, UNCHANGED db,
           inbox' = [inbox EXCEPT ![p] = <<>>], outbox' = [outbox EXCEPT ![p] = <<>>],
           checked' = [checked EXCEPT ![p] = FALSE],
           \A w \in Writes : Owner[w] # p => phase'[w] = phase[w]
    PROVE  /\ inbox' \in [Procs -> Seq(Message)] /\ outbox' \in [Procs -> Seq(Message)]
           /\ checked' \in [Procs -> BOOLEAN]
           /\ Messages' /\ OneMessage' /\ Checked'
    <1> TypeOK /\ Messages /\ OneMessage /\ Checked
        BY DEF StoreInv
    <1>1. /\ inbox'[p] = <<>> /\ outbox'[p] = <<>> /\ ~checked'[p]
          /\ \A q \in Procs : q # p => /\ inbox'[q] = inbox[q] /\ outbox'[q] = outbox[q]
                                       /\ checked'[q] = checked[q]
        BY DEF TypeOK
    <1>2. inbox' \in [Procs -> Seq(Message)] /\ outbox' \in [Procs -> Seq(Message)]
        <2>1. <<>> \in Seq(Message)
            OBVIOUS
        <2> QED BY <2>1 DEF TypeOK
    <1>3. ASSUME NEW q \in Procs, q # p, NEW n, Asked(q, n) PROVE Asked(q, n)'
        BY <1>3 DEF Asked
    <1>4. ASSUME NEW q \in Procs, q # p, NEW n, Answered(q, n) PROVE Answered(q, n)'
        BY <1>4 DEF Answered, Past
    <1>5. Messages'
        <2>1. ASSUME NEW q \in Procs, NEW i \in 1..Len(inbox'[q]) PROVE Asked(q, inbox[q][i])'
            <3>1. q # p
                BY <1>1, <2>1
            <3> QED BY <1>1, <1>3, <2>1, <3>1 DEF Messages
        <2>2. ASSUME NEW q \in Procs, NEW i \in 1..Len(outbox'[q]) PROVE Answered(q, outbox[q][i])'
            <3>1. q # p
                BY <1>1, <2>2
            <3> QED BY <1>1, <1>4, <2>2, <3>1 DEF Messages
        <2> QED BY <2>1, <2>2 DEF Messages
    <1>6. OneMessage'
        <2>1. ASSUME NEW q \in Procs PROVE Few(inbox'[q], outbox'[q])
            <3>1. Few(<<>>, <<>>)
                BY DEF Few, Quiet
            <3> QED BY <1>1, <3>1 DEF OneMessage
        <2> QED BY <2>1 DEF OneMessage
    <1>7. Checked'
        BY <1>1 DEF Checked
    <1>8. checked' \in [Procs -> BOOLEAN]
        BY DEF TypeOK
    <1> QED BY <1>2, <1>5, <1>6, <1>7, <1>8

(* An answer is delivered: only the call it is for may change its phase.   *)
LEMMA TakenFrom ==
    ASSUME OneWriter, StoreInv, NEW p \in Procs, outbox[p] # <<>>,
           outbox' = [outbox EXCEPT ![p] = Tail(@)], UNCHANGED <<inbox, db, checked>>,
           \A v \in Writes : v # outbox[p][1].from => phase'[v] = phase[v]
    PROVE  Messages' /\ OneMessage' /\ Checked'
    <1> TypeOK /\ Messages /\ OneMessage /\ Checked
        BY DEF StoreInv
    <1> DEFINE f == outbox[p][1].from
    <1>0. /\ Shorter(outbox[p], outbox'[p])
          /\ \A q \in Procs : q # p => outbox'[q] = outbox[q]
        BY Taken
    <1>1. \A q \in Procs : Few(inbox[q], outbox[q])
        BY DEF OneMessage
    <1>2. /\ Few(inbox[p], outbox'[p])
          /\ f \in Writes => Quiet(inbox[p]) /\ Quiet(outbox'[p])
        BY <1>0, <1>1, FewShorter
    <1>3. ASSUME f \in Writes, NEW q \in Procs PROVE Quiet(inbox'[q]) /\ Quiet(outbox'[q])
        <2>1. Owner[f] = p
            BY <1>0, <1>3, ShorterElements DEF Messages, Answered
        <2>2. CASE q = p
            BY <1>2, <1>3, <2>2
        <2>3. CASE q # p
            <3>1. ASSUME NEW i \in 1..Len(inbox[q]), inbox[q][i].from \in Writes PROVE FALSE
                BY <1>3, <2>1, <2>3, <3>1 DEF Messages, Asked, OneWriter
            <3>2. ASSUME NEW i \in 1..Len(outbox[q]), outbox[q][i].from \in Writes PROVE FALSE
                BY <1>3, <2>1, <2>3, <3>2 DEF Messages, Answered, OneWriter
            <3> QED BY <1>0, <2>3, <3>1, <3>2 DEF Quiet
        <2> QED BY <2>2, <2>3
    <1>4. ASSUME NEW q \in Procs, NEW n, Asked(q, n), f \in Writes => n.from \notin Writes
          PROVE Asked(q, n)'
        BY <1>4 DEF Asked
    <1>5. ASSUME NEW q \in Procs, NEW n, Answered(q, n), f \in Writes => n.from \notin Writes
          PROVE Answered(q, n)'
        BY <1>5 DEF Answered, Past
    <1>6. Messages'
        <2>1. ASSUME NEW q \in Procs, NEW i \in 1..Len(inbox'[q]) PROVE Asked(q, inbox[q][i])'
            BY <1>3, <1>4, <2>1 DEF Messages, Quiet
        <2>2. ASSUME NEW q \in Procs, NEW i \in 1..Len(outbox'[q]) PROVE Answered(q, outbox[q][i])'
            <3>1. Answered(q, outbox'[q][i])
                BY <1>0, <2>2, ShorterElements DEF Messages
            <3>2. f \in Writes => outbox'[q][i].from \notin Writes
                BY <1>3, <2>2 DEF Quiet
            <3> QED BY <1>5, <3>1, <3>2
        <2> QED BY <2>1, <2>2 DEF Messages
    <1>7. OneMessage'
        <2>1. ASSUME NEW q \in Procs PROVE Few(inbox'[q], outbox'[q])
            BY <1>0, <1>1, <1>2
        <2> QED BY <2>1 DEF OneMessage
    <1>8. Checked'
        BY DEF Checked
    <1> QED BY <1>6, <1>7, <1>8

(* The answer to a revision request leads to a read request.               *)
LEMMA TakenAgain ==
    ASSUME OneWriter, StoreInv, NEW p \in Procs, outbox[p] # <<>>,
           outbox' = [outbox EXCEPT ![p] = Tail(@)], outbox[p][1].type = "revision",
           NEW m \in Message, m.from = outbox[p][1].from, m.type = "read", Post(p, m),
           UNCHANGED <<phase, db, checked>>
    PROVE  Messages' /\ OneMessage' /\ Checked'
    <1> TypeOK /\ Messages /\ OneMessage /\ Checked
        BY DEF StoreInv
    <1> DEFINE f == outbox[p][1].from
    <1>0. /\ Shorter(outbox[p], outbox'[p])
          /\ \A q \in Procs : q # p => outbox'[q] = outbox[q]
        BY Taken
    <1>1. /\ Longer(inbox[p], inbox'[p], m)
          /\ inbox[p] # <<>> => inbox'[p] # <<>> /\ Head(inbox'[p]) = Head(inbox[p])
          /\ \A q \in Procs : q # p => inbox'[q] = inbox[q]
        BY Posted
    <1>2. \A q \in Procs : Few(inbox[q], outbox[q])
        BY DEF OneMessage
    <1>3. Few(inbox'[p], outbox'[p])
        <2>1. Few(inbox[p], outbox'[p]) /\ (f \in Writes => Quiet(inbox[p]) /\ Quiet(outbox'[p]))
            BY <1>0, <1>2, FewShorter
        <2> QED BY <1>1, <2>1, FewLonger
    <1>4. ASSUME NEW q, NEW n, Asked(q, n) PROVE Asked(q, n)'
        BY <1>4 DEF Asked
    <1>5. ASSUME NEW q, NEW n, Answered(q, n) PROVE Answered(q, n)'
        BY <1>5 DEF Answered, Past
    <1>6. Asked(p, m)'
        <2>1. Answered(p, outbox[p][1])
            BY <1>0, ShorterElements DEF Messages
        <2> QED BY <2>1 DEF Answered, Asked
    <1>7. Messages'
        <2>1. ASSUME NEW q \in Procs, NEW i \in 1..Len(inbox'[q]) PROVE Asked(q, inbox[q][i])'
            BY <1>1, <1>4, <1>6, <2>1, LongerElements DEF Messages
        <2>2. ASSUME NEW q \in Procs, NEW i \in 1..Len(outbox'[q]) PROVE Answered(q, outbox[q][i])'
            <3>1. Answered(q, outbox'[q][i])
                BY <1>0, <2>2, ShorterElements DEF Messages
            <3> QED BY <1>5, <3>1
        <2> QED BY <2>1, <2>2 DEF Messages
    <1>8. OneMessage'
        <2>1. ASSUME NEW q \in Procs PROVE Few(inbox'[q], outbox'[q])
            BY <1>0, <1>1, <1>2, <1>3
        <2> QED BY <2>1 DEF OneMessage
    <1>9. Checked'
        BY <1>1 DEF Checked
    <1> QED BY <1>7, <1>8, <1>9

-----------------------------------------------------------------------------
(* What each step keeps of the invariant.                                  *)

(* ensureRuntime posts its first request.                                  *)
LEMMA BootKeeps ==
    ASSUME StoreInv, NEW p \in Procs, Boot(p) PROVE StoreInv'
    <1>1. Request(p, "initialize", Empty) \in Message
        BY RequestTypes, EmptyTypes
    <1>2. inbox' \in [Procs -> Seq(Message)]
        BY <1>1, Posted DEF StoreInv, Boot
    <1>3. TypeOK'
        <2>1. boots' \in 0..MaxBoots
            BY CallsAssumption DEF StoreInv, TypeOK, Boot
        <2>2. /\ life' \in [Procs -> {"off", "init", "boot", "up", "draining", "closing"}]
              /\ worker' \in [Procs -> BOOLEAN]
            BY DEF StoreInv, TypeOK, Boot
        <2> QED BY <1>2, <2>1, <2>2 DEF StoreInv, TypeOK, Boot
    <1>4. Messages' /\ OneMessage' /\ Checked'
        <2>1. p \notin Writes
            BY CallsAssumption DEF Calls
        <2>2. Request(p, "initialize", Empty).from = p
              /\ Request(p, "initialize", Empty).type = "initialize"
            BY DEF Request
        <2> QED BY <1>1, <2>1, <2>2, PostedBeside DEF Boot
    <1>5. Told' /\ Chain' /\ Drafts' /\ Caches'
        BY DEF StoreInv, Boot, Told, Chain, Active, Turn, Drafts, Caches, Past
    <1> QED BY <1>3, <1>4, <1>5 DEF StoreInv

(* checkpointAndCloseState posts its last request.                         *)
LEMMA CloseKeeps ==
    ASSUME StoreInv, NEW p \in Procs, Close(p) PROVE StoreInv'
    <1>1. Request(p, "close", Empty) \in Message
        BY RequestTypes, EmptyTypes
    <1>2. inbox' \in [Procs -> Seq(Message)]
        BY <1>1, Posted DEF StoreInv, Close
    <1>3. TypeOK'
        BY <1>2 DEF StoreInv, TypeOK, Close
    <1>4. Messages' /\ OneMessage' /\ Checked'
        <2>1. p \notin Writes
            BY CallsAssumption DEF Calls
        <2>2. Request(p, "close", Empty).from = p /\ Request(p, "close", Empty).type = "close"
            BY DEF Request
        <2> QED BY <1>1, <2>1, <2>2, PostedBeside DEF Close
    <1>5. Told' /\ Chain' /\ Drafts' /\ Caches'
        BY DEF StoreInv, Close, Told, Chain, Active, Turn, Drafts, Caches, Past
    <1> QED BY <1>3, <1>4, <1>5 DEF StoreInv

(* The server listens, or a shutdown begins.                               *)
LEMMA LifeKeeps ==
    ASSUME StoreInv, NEW p \in Procs, Listen(p) \/ Drain(p) PROVE StoreInv'
    <1>1. UNCHANGED <<db, worker, cache, queue, phase, base, answer, inbox, outbox, checked,
                      boots, faults>>
        BY DEF Listen, Drain
    <1>2. TypeOK'
        <2>1. life' \in [Procs -> {"off", "init", "boot", "up", "draining", "closing"}]
            BY DEF StoreInv, TypeOK, Listen, Drain
        <2>2. awaited' \in [Procs -> SUBSET Writes]
            <3>1. ToSet(queue[p]) \subseteq Writes
                BY DEF StoreInv, TypeOK, ToSet
            <3> QED BY <3>1 DEF StoreInv, TypeOK, Listen, Drain
        <2> QED BY <1>1, <2>1, <2>2 DEF StoreInv, TypeOK
    <1>3. Messages' /\ OneMessage' /\ Checked'
        BY <1>1, Still
    <1>4. Told' /\ Chain' /\ Drafts' /\ Caches'
        BY <1>1 DEF StoreInv, Told, Chain, Active, Turn, Drafts, Caches, Past
    <1> QED BY <1>2, <1>3, <1>4 DEF StoreInv

(* mutate joins the end of the queue.                                      *)
LEMMA IssueKeeps ==
    ASSUME OneWriter, StoreInv, NEW w \in Writes, Issue(w) PROVE StoreInv'
    <1> DEFINE p == Owner[w]
    <1>0. p \in Procs /\ w \in Calls /\ phase[w] = "idle" /\ answer[w] = "none"
        BY CallsAssumption DEF StoreInv, Issue, Told, Calls
    <1>1. queue[p] \in Seq(Writes) /\ queue'[p] = Append(queue[p], w)
        BY <1>0 DEF StoreInv, TypeOK, Issue
    <1>2. queue' \in [Procs -> Seq(Writes)] /\ \A q \in Procs : q # p => queue'[q] = queue[q]
        BY <1>0, <1>1, Appended DEF StoreInv, TypeOK, Issue
    <1>3. TypeOK'
        BY <1>0, <1>2 DEF StoreInv, TypeOK, Issue
    <1>4. \A v \in Writes : v # w => phase'[v] = phase[v] /\ answer'[v] = answer[v]
        BY DEF Issue
    <1>5. phase'[w] = "queued" /\ answer'[w] = "pending"
        BY <1>0 DEF StoreInv, TypeOK, Issue
    <1>6. Messages' /\ OneMessage' /\ Checked'
        BY <1>0, <1>4, Still DEF Issue
    <1>7. Told' /\ Caches'
        BY <1>4, <1>5 DEF StoreInv, Issue, Told, Active, Caches, Past
    <1>8. Drafts'
        BY <1>0, <1>4, <1>5 DEF StoreInv, Issue, Drafts
    <1>9. Chain'
        <2>1. ASSUME NEW v \in Writes, Active(v)' PROVE Turn(v)'
            <3>1. Active(v) /\ Turn(v)
                BY <1>4, <1>5, <2>1 DEF Active, StoreInv, Chain
            <3>2. Owner[v] \in Procs
                BY CallsAssumption DEF Calls
            <3>3. queue[p] # <<>> => queue'[p] # <<>> /\ Head(queue'[p]) = Head(queue[p])
                BY <1>1, Appended
            <3> QED BY <1>2, <3>1, <3>2, <3>3 DEF Turn
        <2> QED BY <2>1 DEF Chain
    <1> QED BY <1>3, <1>6, <1>7, <1>8, <1>9 DEF StoreInv

(* The write at the head of the queue is settled and leaves the queue.     *)
LEMMA Settles ==
    ASSUME OneWriter, StoreInv, NEW w \in Writes, Turn(w), phase[w] = "queued" \/ Active(w),
           NEW a \in {"ok", "unchanged", "refused"}, Settle(w, a), UNCHANGED <<db, base>>
    PROVE  /\ queue' \in [Procs -> Seq(Writes)]
           /\ phase' \in [Calls -> {"idle", "queued", "refresh", "draft", "sent", "done"}]
           /\ answer' \in [Writes -> {"none", "pending", "ok", "unchanged", "refused", "lost"}]
           /\ \A v \in Writes : v # w => phase'[v] = phase[v] /\ answer'[v] = answer[v]
           /\ phase'[w] = "done" /\ answer'[w] = a
           /\ Told' /\ Chain' /\ Drafts'
    <1>0. Owner[w] \in Procs /\ w \in Calls
        BY CallsAssumption DEF Calls
    <1>1. queue' \in [Procs -> Seq(Writes)]
        BY <1>0, Advanced DEF StoreInv, Settle
    <1>2. phase' \in [Calls -> {"idle", "queued", "refresh", "draft", "sent", "done"}]
        BY DEF StoreInv, TypeOK, Settle
    <1>3. answer' \in [Writes -> {"none", "pending", "ok", "unchanged", "refused", "lost"}]
        BY DEF StoreInv, TypeOK, Settle
    <1>4. \A v \in Writes : v # w => phase'[v] = phase[v] /\ answer'[v] = answer[v]
        BY DEF Settle
    <1>5. phase'[w] = "done" /\ answer'[w] = a
        BY <1>0 DEF StoreInv, TypeOK, Settle
    <1>6. Told'
        BY <1>4, <1>5 DEF StoreInv, Told, Active
    <1>7. Chain'
        <2>1. ASSUME NEW v \in Writes, Active(v)' PROVE FALSE
            <3>1. v # w /\ Active(v)
                BY <1>4, <1>5, <2>1 DEF Active
            <3> QED BY <3>1, Alone
        <2> QED BY <2>1 DEF Chain
    <1>8. Drafts'
        BY <1>4, <1>5 DEF StoreInv, Drafts
    <1> QED BY <1>1, <1>2, <1>3, <1>4, <1>5, <1>6, <1>7, <1>8

(* The operation of the head asks for the revision, or is refused.         *)
LEMMA RefreshKeeps ==
    ASSUME OneWriter, StoreInv, NEW w \in Writes, Refresh(w) PROVE StoreInv'
    <1> DEFINE p == Owner[w]
    <1>0. p \in Procs /\ w \in Calls /\ phase[w] = "queued" /\ Turn(w)
        BY CallsAssumption DEF Refresh, Calls
    <1>1. CASE Settle(w, "refused") /\ UNCHANGED inbox
        <2>1. UNCHANGED <<db, base, inbox, outbox, checked, life, worker, cache, awaited, boots,
                        faults>>
            BY <1>1 DEF Refresh
        <2>2. Messages' /\ OneMessage' /\ Checked'
            BY <1>0, <1>1, <2>1, Settles, Still
        <2>3. TypeOK'
            BY <1>0, <1>1, <2>1, Settles DEF StoreInv, TypeOK
        <2>4. Caches'
            BY <2>1 DEF StoreInv, Caches, Past
        <2> QED BY <1>0, <1>1, <2>1, <2>2, <2>3, <2>4, Settles DEF StoreInv
    <1>2. CASE /\ Post(p, Request(w, "revision", Empty))
               /\ phase' = [phase EXCEPT ![w] = "refresh"]
               /\ UNCHANGED <<answer, queue>>
        <2>1. UNCHANGED <<db, base, outbox, checked, life, worker, cache, awaited, boots, faults>>
            BY DEF Refresh
        <2> DEFINE m == Request(w, "revision", Empty)
        <2>2. m \in Message /\ m.from = w /\ m.type = "revision"
            BY <1>0, RequestTypes, EmptyTypes
        <2>3. phase'[w] = "refresh" /\ \A v \in Writes : v # w => phase'[v] = phase[v]
            BY <1>0, <1>2 DEF StoreInv, TypeOK
        <2>4. Asked(p, m)'
            BY <2>2, <2>3 DEF Asked
        <2>5. Messages' /\ OneMessage' /\ Checked'
            BY <1>0, <1>2, <2>1, <2>2, <2>4, PostedAlone
        <2>6. inbox' \in [Procs -> Seq(Message)]
            BY <1>0, <1>2, <2>2, Posted DEF StoreInv
        <2>7. TypeOK'
            BY <1>0, <1>2, <2>1, <2>6 DEF StoreInv, TypeOK
        <2>8. Told' /\ Drafts' /\ Caches'
            BY <1>0, <1>2, <2>1, <2>3 DEF StoreInv, Told, Active, Drafts, Caches, Past
        <2>9. Chain'
            BY <1>0, <1>2, <2>3 DEF StoreInv, Chain, Active, Turn
        <2> QED BY <2>5, <2>7, <2>8, <2>9 DEF StoreInv
    <1> QED BY <1>1, <1>2 DEF Refresh

(* The callback of mutate ends: it throws, changes nothing, or commits.    *)
LEMMA DraftKeeps ==
    ASSUME OneWriter, StoreInv, NEW w \in Writes, Draft(w) PROVE StoreInv'
    <1> DEFINE p == Owner[w]
    <1>0. p \in Procs /\ w \in Calls /\ phase[w] = "draft" /\ Active(w) /\ Turn(w)
          /\ base[w] = db /\ w \notin db.val
        BY CallsAssumption DEF Draft, Calls, StoreInv, Chain, Active, Drafts
    <1>1. ASSUME NEW a \in {"refused", "unchanged"}, Settle(w, a), UNCHANGED inbox PROVE StoreInv'
        <2>1. UNCHANGED <<db, base, inbox, outbox, checked, life, worker, cache, awaited, boots,
                        faults>>
            BY <1>1 DEF Draft
        <2>2. Messages' /\ OneMessage' /\ Checked'
            BY <1>0, <1>1, <2>1, Settles, Still
        <2>3. TypeOK'
            BY <1>0, <1>1, <2>1, Settles DEF StoreInv, TypeOK
        <2>4. Caches'
            BY <2>1 DEF StoreInv, Caches, Past
        <2> QED BY <1>0, <1>1, <2>1, <2>2, <2>3, <2>4, Settles DEF StoreInv
    <1>2. CASE /\ Post(p, Request(w, "apply", base[w]))
               /\ phase' = [phase EXCEPT ![w] = "sent"]
               /\ UNCHANGED <<answer, queue>>
        <2>1. UNCHANGED <<db, base, outbox, checked, life, worker, cache, awaited, boots, faults>>
            BY DEF Draft
        <2> DEFINE m == Request(w, "apply", base[w])
        <2>2. m \in Message /\ m.from = w /\ m.type = "apply" /\ m.snap = db
            BY <1>0, RequestTypes DEF StoreInv, TypeOK
        <2>3. phase'[w] = "sent" /\ \A v \in Writes : v # w => phase'[v] = phase[v]
            BY <1>0, <1>2 DEF StoreInv, TypeOK
        <2>4. Asked(p, m)'
            <3>1. m.from = w /\ m.type = "apply" /\ m.snap = db' /\ w \notin db'.val
                  /\ phase'[w] = "sent"
                BY <1>0, <2>1, <2>2, <2>3
            <3>2. (base[w])' = base[w]
                BY <2>1
            <3> HIDE DEF m
            <3> QED BY <3>1, <3>2, <2>1 DEF Asked, m
        <2>5. Messages' /\ OneMessage' /\ Checked'
            BY <1>0, <1>2, <2>1, <2>2, <2>4, PostedAlone
        <2>6. inbox' \in [Procs -> Seq(Message)]
            BY <1>0, <1>2, <2>2, Posted DEF StoreInv
        <2>7. TypeOK'
            BY <1>0, <1>2, <2>1, <2>6 DEF StoreInv, TypeOK
        <2>8. Told' /\ Drafts' /\ Caches'
            BY <1>0, <1>2, <2>1, <2>3 DEF StoreInv, Told, Active, Drafts, Caches, Past
        <2>9. Chain'
            BY <1>0, <1>2, <2>3 DEF StoreInv, Chain, Active, Turn
        <2> QED BY <2>5, <2>7, <2>8, <2>9 DEF StoreInv
    <1> QED BY <1>1, <1>2 DEF Draft

(* readState asks for the revision beside the queue.                       *)
LEMMA ReadKeeps ==
    ASSUME StoreInv, NEW r \in Reads, Read(r) PROVE StoreInv'
    <1> DEFINE p == Owner[r]
    <1>0. p \in Procs /\ r \in Calls /\ r \notin Writes
        BY CallsAssumption DEF Calls
    <1>1. /\ UNCHANGED <<db, life, worker, cache, queue, base, answer, outbox, checked, awaited,
                        boots, faults>>
          /\ \A w \in Writes : phase'[w] = phase[w]
        <2>1. phase' = [phase EXCEPT ![r] = "refresh"] \/ phase' = [phase EXCEPT ![r] = "done"]
            BY DEF Read
        <2>2. \A w \in Writes : phase'[w] = phase[w]
            BY <1>0, <2>1 DEF StoreInv, TypeOK, Calls
        <2> QED BY <2>2 DEF Read
    <1>2. phase' \in [Calls -> {"idle", "queued", "refresh", "draft", "sent", "done"}]
        <2>1. phase' = [phase EXCEPT ![r] = "refresh"] \/ phase' = [phase EXCEPT ![r] = "done"]
            BY DEF Read
        <2> QED BY <1>0, <2>1 DEF StoreInv, TypeOK
    <1>3. Told' /\ Chain' /\ Drafts' /\ Caches'
        BY <1>1 DEF StoreInv, Told, Chain, Active, Turn, Drafts, Caches, Past
    <1>4. inbox' \in [Procs -> Seq(Message)] /\ Messages' /\ OneMessage' /\ Checked'
        <2>1. CASE UNCHANGED inbox
            BY <1>1, <2>1, Still DEF StoreInv, TypeOK
        <2>2. CASE Post(p, Request(r, "revision", Empty))
            <3>1. /\ Request(r, "revision", Empty) \in Message
                  /\ Request(r, "revision", Empty).from = r
                  /\ Request(r, "revision", Empty).type = "revision"
                BY <1>0, RequestTypes, EmptyTypes
            <3> QED BY <1>0, <1>1, <2>2, <3>1, PostedBeside, Posted DEF StoreInv
        <2> QED BY <2>1, <2>2 DEF Read
    <1>5. TypeOK'
        BY <1>1, <1>2, <1>4 DEF StoreInv, TypeOK
    <1> QED BY <1>3, <1>4, <1>5 DEF StoreInv

(* The worker serves a request, compares revisions, or rolls back.         *)
LEMMA WorkerKeeps ==
    ASSUME OneWriter, StoreInv, NEW p \in Procs, Serve(p) \/ Check(p) \/ Rollback(p) PROVE StoreInv'
    <1>1. UNCHANGED <<db, life, worker, cache, queue, phase, base, answer, awaited, boots>>
        BY DEF Serve, Check, Rollback
    <1>2. Told' /\ Chain' /\ Drafts' /\ Caches'
        BY <1>1 DEF StoreInv, Told, Chain, Active, Turn, Drafts, Caches, Past
    <1>3. faults' \in 0..MaxFaults /\ checked' \in [Procs -> BOOLEAN]
        <2>1. CASE Serve(p)
            BY <2>1 DEF StoreInv, TypeOK, Serve
        <2>2. CASE Check(p)
            BY <2>2 DEF StoreInv, TypeOK, Check
        <2>3. CASE Rollback(p)
            BY <2>3, CallsAssumption DEF StoreInv, TypeOK, Rollback, Fault
        <2> QED BY <2>1, <2>2, <2>3
    <1> DEFINE m == Head(inbox[p])
    <1>4. db \in Snapshot /\ TypeOK
        BY DEF StoreInv, TypeOK
    <1>5. inbox[p] # <<>> => m = inbox[p][1] /\ m \in Message /\ Asked(p, m)
        <2>1. ASSUME inbox[p] # <<>>
              PROVE  m = inbox[p][1] /\ m \in Message /\ 1 \in 1..Len(inbox[p])
            <3>1. inbox[p] \in Seq(Message)
                BY <1>4 DEF TypeOK
            <3>2. m = inbox[p][1] /\ m \in Message /\ Shorter(inbox[p], Tail(inbox[p]))
                BY <2>1, <3>1, Tailed
            <3> QED BY <3>2, ShorterElements
        <2> QED BY <2>1 DEF StoreInv, Messages
    <1>6. ASSUME inbox[p] # <<>>,
                 NEW t \in {"initialize", "revision", "read", "closed", "failed"},
                 IF t = "failed" THEN m.type = "apply"
                 ELSE m.type = IF t = "closed" THEN "close" ELSE t,
                 Reply(p, m, t, db)
          PROVE  inbox' \in [Procs -> Seq(Message)] /\ outbox' \in [Procs -> Seq(Message)]
                 /\ Messages' /\ OneMessage'
        <2>1. ASSUME NEW n, n = Request(inbox[p][1].from, t, db) PROVE Answered(p, n)'
            <3>1. n.from = m.from /\ n.type = t /\ n.snap = db
                BY <1>5, <1>6, <2>1 DEF Request
            <3>2. Past(n.snap)'
                BY <1>1, <1>4, <3>1 DEF Past, Snapshot
            <3>3. Asked(p, m)
                BY <1>5, <1>6
            <3> HIDE DEF m
            <3>4. CASE m.from \in Writes
                BY <1>1, <1>6, <3>1, <3>2, <3>3, <3>4 DEF Asked, Answered
            <3>5. CASE m.from \notin Writes
                BY <1>1, <1>6, <3>1, <3>2, <3>3, <3>5 DEF Asked, Answered
            <3> QED BY <3>4, <3>5
        <2>2. \A n : n = Request(inbox[p][1].from, t, db) => Answered(p, n)'
            BY <2>1
        <2> QED BY <1>1, <1>4, <1>6, <2>2, Replied, Replies DEF Answers
    <1>7. CASE Serve(p)
        <2>1. inbox[p] # <<>> /\ m.type # "apply" /\ Asked(p, m) /\ UNCHANGED <<checked, faults>>
              /\ Reply(p, m, IF m.type = "close" THEN "closed" ELSE m.type, db)
            BY <1>5, <1>7 DEF Serve
        <2>2. m.type \in {"initialize", "revision", "read", "close"}
            BY <2>1 DEF Asked
        <2>3. inbox' \in [Procs -> Seq(Message)] /\ outbox' \in [Procs -> Seq(Message)]
              /\ Messages' /\ OneMessage'
            <3> DEFINE t == IF m.type = "close" THEN "closed" ELSE m.type
            <3>1. /\ t \in {"initialize", "revision", "read", "closed", "failed"} /\ t # "failed"
                  /\ m.type = IF t = "closed" THEN "close" ELSE t
                BY <2>2
            <3>2. Reply(p, m, t, db)
                BY <2>1
            <3> HIDE DEF t, m
            <3> QED BY <1>6, <2>1, <3>1, <3>2
        <2>4. Checked'
            <3>1. ~checked[p]
                BY <2>1 DEF StoreInv, Checked
            <3>2. \A q \in Procs : q # p => inbox'[q] = inbox[q]
                BY <1>4, <2>1 DEF Reply, TypeOK
            <3> QED BY <2>1, <3>1, <3>2 DEF StoreInv, Checked
        <2> QED BY <1>1, <1>2, <1>3, <2>1, <2>3, <2>4 DEF StoreInv, TypeOK
    <1>8. CASE Rollback(p)
        <2>1. checked[p] /\ inbox[p] # <<>> /\ m.type = "apply" /\ Reply(p, m, "failed", db)
              /\ checked' = [checked EXCEPT ![p] = FALSE]
            BY <1>8 DEF Rollback, StoreInv, Checked
        <2>2. inbox' \in [Procs -> Seq(Message)] /\ outbox' \in [Procs -> Seq(Message)]
              /\ Messages' /\ OneMessage'
            BY <1>6, <2>1
        <2>3. Checked'
            <3>1. \A q \in Procs : q # p => inbox'[q] = inbox[q] /\ checked'[q] = checked[q]
                BY <1>4, <2>1 DEF Reply, TypeOK
            <3>2. ~checked'[p]
                BY <1>4, <2>1 DEF TypeOK
            <3> QED BY <3>1, <3>2 DEF StoreInv, Checked
        <2> QED BY <1>1, <1>2, <1>3, <2>2, <2>3 DEF StoreInv, TypeOK
    <1>9. CASE Check(p)
        <2>1. inbox[p] # <<>> /\ m.type = "apply" /\ Asked(p, m) /\ UNCHANGED faults
            BY <1>5, <1>9 DEF Check
        <2>2. Expected(m)
            BY <2>1 DEF Asked, Expected
        <2>3. checked' = [checked EXCEPT ![p] = TRUE] /\ UNCHANGED <<inbox, outbox>>
            BY <1>9, <2>2 DEF Check
        <2>4. Messages' /\ OneMessage'
            <3>1. \A w \in Writes : phase'[w] = phase[w]
                BY <1>1
            <3>2. ASSUME NEW q, NEW n, Asked(q, n) PROVE Asked(q, n)'
                BY <1>1, <3>2 DEF Asked
            <3>3. ASSUME NEW q, NEW n, Answered(q, n) PROVE Answered(q, n)'
                BY <1>1, <3>3 DEF Answered, Past
            <3>4. ASSUME NEW q \in Procs, NEW i \in 1..Len(inbox'[q]) PROVE Asked(q, inbox[q][i])'
                BY <2>3, <3>2, <3>4 DEF StoreInv, Messages
            <3>5. ASSUME NEW q \in Procs, NEW i \in 1..Len(outbox'[q])
                  PROVE  Answered(q, outbox[q][i])'
                BY <2>3, <3>3, <3>5 DEF StoreInv, Messages
            <3>6. OneMessage'
                BY <2>3 DEF StoreInv, OneMessage
            <3> QED BY <3>4, <3>5, <3>6 DEF Messages
        <2>5. Checked'
            BY <1>4, <2>1, <2>3 DEF StoreInv, Checked, TypeOK
        <2> QED BY <1>1, <1>2, <1>3, <2>1, <2>3, <2>4, <2>5 DEF StoreInv, TypeOK
    <1> QED BY <1>7, <1>8, <1>9

(* A transaction is of the one write at work; it was drafted on the        *)
(* state that is in the database and is not in it.                         *)
LEMMA Commits ==
    ASSUME OneWriter, StoreInv, NEW p \in Procs, Commit(p)
    PROVE  \E w \in Writes :
               /\ inbox[p] # <<>> /\ inbox[p][1].from = w /\ Head(inbox[p]) = inbox[p][1]
               /\ Owner[w] = p /\ phase[w] = "sent" /\ Active(w) /\ Turn(w) /\ answer[w] = "pending"
               /\ inbox[p][1].snap = db /\ w \notin db.val
               /\ db' = [rev |-> db.rev + 1, val |-> db.val \cup {w}]
    <1> DEFINE m == Head(inbox[p])
               w == m.from
    <1>1. checked[p] /\ inbox[p] # <<>> /\ m.type = "apply"
        BY DEF Commit, StoreInv, Checked
    <1>2. m = inbox[p][1] /\ Asked(p, m)
        <2>1. inbox[p] \in Seq(Message)
            BY DEF StoreInv, TypeOK
        <2>2. m = inbox[p][1] /\ Shorter(inbox[p], Tail(inbox[p]))
            BY <1>1, <2>1, Tailed
        <2> QED BY <2>2, ShorterElements DEF StoreInv, Messages
    <1>3. w \in Writes /\ Owner[w] = p /\ phase[w] = "sent" /\ m.snap = db /\ w \notin db.val
        BY <1>1, <1>2 DEF Asked
    <1>4. Active(w) /\ Turn(w) /\ answer[w] = "pending"
        BY <1>3 DEF StoreInv, Told, Chain, Active
    <1>5. db' = [rev |-> db.rev + 1, val |-> db.val \cup {w}]
        BY <1>3 DEF Commit, Committed
    <1> QED BY <1>1, <1>2, <1>3, <1>4, <1>5

(* A transaction keeps the invariant: nobody else had drafted on the old   *)
(* state, and every cache of it is now past.                               *)
LEMMA CommitKeeps ==
    ASSUME OneWriter, StoreInv, NEW p \in Procs, Commit(p) PROVE StoreInv'
    <1>0. PICK w \in Writes :
               /\ inbox[p] # <<>> /\ inbox[p][1].from = w /\ Head(inbox[p]) = inbox[p][1]
               /\ Owner[w] = p /\ phase[w] = "sent" /\ Active(w) /\ Turn(w) /\ answer[w] = "pending"
               /\ inbox[p][1].snap = db /\ w \notin db.val
               /\ db' = [rev |-> db.rev + 1, val |-> db.val \cup {w}]
        BY Commits
    <1>1. UNCHANGED <<life, worker, cache, queue, phase, base, answer, awaited, boots>>
        BY DEF Commit
    <1>2. db \in Snapshot /\ db' \in Snapshot /\ db'.rev = db.rev + 1 /\ db'.val = db.val \cup {w}
          /\ db.rev \in Nat
        BY <1>0 DEF StoreInv, TypeOK, Snapshot
    <1>3. TypeOK
        BY DEF StoreInv
    <1>4. ASSUME NEW t \in {"committed", "failed"}, NEW s \in Snapshot,
                 Reply(p, Head(inbox[p]), t, s),
                 s = IF t = "failed" THEN db ELSE db'
          PROVE  inbox' \in [Procs -> Seq(Message)] /\ outbox' \in [Procs -> Seq(Message)]
                 /\ Messages' /\ OneMessage'
        <2>1. ASSUME NEW n, n = Request(inbox[p][1].from, t, s) PROVE Answered(p, n)'
            <3>1. n.from = w /\ n.type = t /\ n.snap = s
                BY <1>0, <2>1 DEF Request
            <3>2. Past(n.snap)'
                BY <1>2, <1>4, <3>1 DEF Past
            <3> QED BY <1>0, <1>1, <1>2, <1>4, <3>1, <3>2 DEF Answered
        <2>2. \A n : n = Request(inbox[p][1].from, t, s) => Answered(p, n)'
            BY <2>1
        <2>3. /\ db.rev \in Nat /\ db'.rev \in Nat /\ db.rev < db'.rev
              /\ inbox[p][1].from \in Writes
            BY <1>0, <1>2
        <2>4. /\ inbox[p] # <<>> /\ UNCHANGED phase
              /\ t \in Answers
            BY <1>0, <1>1 DEF Answers
        <2>5. inbox' \in [Procs -> Seq(Message)] /\ outbox' \in [Procs -> Seq(Message)]
            BY <1>3, <1>4, <2>4, Replied
        <2>6. Messages' /\ OneMessage'
            BY <1>4, <2>2, <2>3, <2>4, Replies
        <2> QED BY <2>5, <2>6
    <1>5. \/ Reply(p, Head(inbox[p]), "committed", db') /\ UNCHANGED faults
          \/ Reply(p, Head(inbox[p]), "failed", db) /\ Fault
        <2>1. Drafted(w, db) = db'
            BY <1>0 DEF Drafted
        <2> QED BY <1>0, <2>1 DEF Commit
    <1>6. /\ inbox' \in [Procs -> Seq(Message)] /\ outbox' \in [Procs -> Seq(Message)]
          /\ Messages' /\ OneMessage'
        BY <1>2, <1>4, <1>5
    <1>7. TypeOK'
        <2>1. faults' \in 0..MaxFaults
            BY <1>3, <1>5, CallsAssumption DEF TypeOK, Fault
        <2>2. checked' \in [Procs -> BOOLEAN]
            BY <1>3 DEF TypeOK, Commit
        <2> QED BY <1>1, <1>2, <1>3, <1>6, <2>1, <2>2 DEF TypeOK
    <1>8. Told' /\ Chain'
        BY <1>1 DEF StoreInv, Told, Chain, Active, Turn
    <1>9. Drafts'
        <2>1. ASSUME NEW v \in Writes, phase[v] \in {"idle", "queued", "refresh", "draft"}
              PROVE  v \notin db'.val /\ phase[v] # "draft"
            <3>1. v # w
                BY <1>0, <2>1
            <3>2. ~Active(v)  \/ v = w
                BY <1>0, Alone
            <3> QED BY <1>2, <2>1, <3>1, <3>2 DEF Active, StoreInv, Drafts
        <2> QED BY <1>1, <2>1 DEF Drafts
    <1>10. Caches'
        <2>1. ASSUME NEW q \in Procs PROVE Past(cache[q])'
            <3>1. cache[q] \in Snapshot /\ Past(cache[q])
                BY <1>3 DEF StoreInv, Caches, TypeOK
            <3> QED BY <1>1, <1>2, <3>1 DEF Past, Snapshot
        <2> QED BY <2>1 DEF Caches
    <1>11. Checked'
        <2>1. checked' = [checked EXCEPT ![p] = FALSE]
            BY DEF Commit
        <2>2. \A q \in Procs : q # p => inbox'[q] = inbox[q] /\ checked'[q] = checked[q]
            BY <1>3, <1>5, <2>1 DEF Reply, TypeOK
        <2>3. ~checked'[p]
            BY <1>3, <2>1 DEF TypeOK
        <2> QED BY <2>2, <2>3 DEF StoreInv, Checked
    <1> QED BY <1>6, <1>7, <1>8, <1>9, <1>10, <1>11 DEF StoreInv

(* The promises of a process end with it.                                  *)
LEMMA AbandonKeeps ==
    ASSUME StoreInv, NEW p \in Procs, NEW a \in {"refused", "lost"}, Abandon(p, a),
           UNCHANGED <<db, cache, base, boots>>,
           life' \in [Procs -> {"off", "init", "boot", "up", "draining", "closing"}],
           worker' \in [Procs -> BOOLEAN], awaited' \in [Procs -> SUBSET Writes],
           faults' \in 0..MaxFaults
    PROVE  StoreInv'
    <1>1. /\ inbox' = [inbox EXCEPT ![p] = <<>>] /\ outbox' = [outbox EXCEPT ![p] = <<>>]
          /\ checked' = [checked EXCEPT ![p] = FALSE] /\ queue' = [queue EXCEPT ![p] = <<>>]
        BY DEF Abandon
    <1>2. ASSUME NEW w \in Writes
          PROVE  IF Owner[w] # p \/ phase[w] = "idle"
                 THEN phase'[w] = phase[w] /\ answer'[w] = answer[w]
                 ELSE phase'[w] = "done"
                    /\ answer'[w] = IF answer[w] = "pending" THEN a ELSE answer[w]
        <2>1. w \in Calls /\ answer'[w] = IF w \in Pending(p) THEN a ELSE answer[w]
            BY DEF Abandon, Calls
        <2>2. phase'[w] = IF w \in Mine(p) /\ phase[w] # "idle" THEN "done" ELSE phase[w]
            BY <2>1 DEF Abandon
        <2>3. w \in Mine(p) <=> Owner[w] = p
            BY <2>1 DEF Mine
        <2>4. w \in Pending(p) <=> Owner[w] = p /\ answer[w] = "pending"
            BY <2>3 DEF Pending
        <2>5. phase[w] = "idle" => answer[w] # "pending"
            BY DEF StoreInv, Told
        <2> QED BY <2>1, <2>2, <2>3, <2>4, <2>5
    <1>3. /\ inbox' \in [Procs -> Seq(Message)] /\ outbox' \in [Procs -> Seq(Message)]
          /\ checked' \in [Procs -> BOOLEAN]
          /\ Messages' /\ OneMessage' /\ Checked'
        BY <1>1, <1>2, Cleared
    <1>4. TypeOK'
        <2>1. queue' \in [Procs -> Seq(Writes)]
            <3>1. <<>> \in Seq(Writes)
                OBVIOUS
            <3> QED BY <1>1, <3>1 DEF StoreInv, TypeOK
        <2>2. phase' \in [Calls -> {"idle", "queued", "refresh", "draft", "sent", "done"}]
            BY DEF StoreInv, TypeOK, Abandon
        <2>3. answer' \in [Writes -> {"none", "pending", "ok", "unchanged", "refused", "lost"}]
            BY DEF StoreInv, TypeOK, Abandon
        <2> QED BY <1>3, <2>1, <2>2, <2>3 DEF StoreInv, TypeOK
    <1>5. Told'
        BY <1>2 DEF StoreInv, Told, Active
    <1>6. Chain'
        <2>1. ASSUME NEW w \in Writes, Active(w)' PROVE Turn(w)'
            <3>1. Owner[w] # p /\ phase'[w] = phase[w]
                BY <1>2, <2>1 DEF Active
            <3>2. Turn(w)
                BY <2>1, <3>1 DEF Active, StoreInv, Chain
            <3>3. Owner[w] \in Procs
                BY CallsAssumption DEF Calls
            <3> QED BY <1>1, <3>1, <3>2, <3>3 DEF Turn, StoreInv, TypeOK
        <2> QED BY <2>1 DEF Chain
    <1>7. Drafts' /\ Caches'
        BY <1>2 DEF StoreInv, Drafts, Caches, Past
    <1> QED BY <1>3, <1>4, <1>5, <1>6, <1>7 DEF StoreInv

(* A process exits or is killed.                                           *)
LEMMA EndKeeps ==
    ASSUME StoreInv, NEW p \in Procs, Exit(p) \/ Crash(p) PROVE StoreInv'
    <1>1. TypeOK
        BY DEF StoreInv
    <1>2. /\ life' = [life EXCEPT ![p] = "off"] /\ worker' = [worker EXCEPT ![p] = FALSE]
          /\ awaited' = [awaited EXCEPT ![p] = {}] /\ UNCHANGED <<db, cache, base, boots>>
        BY DEF Exit, Crash
    <1>3. /\ life' \in [Procs -> {"off", "init", "boot", "up", "draining", "closing"}]
          /\ worker' \in [Procs -> BOOLEAN] /\ awaited' \in [Procs -> SUBSET Writes]
        BY <1>1, <1>2 DEF TypeOK
    <1>4. faults' \in 0..MaxFaults
        BY <1>1, CallsAssumption DEF TypeOK, Exit, Crash, Fault
    <1>5. Abandon(p, "refused") \/ Abandon(p, "lost")
        BY DEF Exit, Crash
    <1> QED BY <1>2, <1>3, <1>4, <1>5, AbandonKeeps

(* The worker thread ends: what was posted is rejected.                    *)
LEMMA WorkerDiesKeeps ==
    ASSUME OneWriter, StoreInv, NEW p \in Procs, WorkerDies(p) PROVE StoreInv'
    <1> DEFINE sent == Rejected(p)
    <1>0. TypeOK
        BY DEF StoreInv
    <1>1. /\ inbox' = [inbox EXCEPT ![p] = <<>>] /\ outbox' = [outbox EXCEPT ![p] = <<>>]
          /\ checked' = [checked EXCEPT ![p] = FALSE] /\ Advance(p, sent)
          /\ UNCHANGED <<db, cache, base, awaited, boots>>
        BY DEF WorkerDies
    <1>2. ASSUME NEW w \in Writes
          PROVE  IF Owner[w] = p /\ phase[w] \in {"refresh", "sent"}
                 THEN phase'[w] = "done" /\ answer'[w] = "refused"
                 ELSE phase'[w] = phase[w] /\ answer'[w] = answer[w]
        <2>1. w \in sent <=> Owner[w] = p /\ phase[w] \in {"refresh", "sent"}
            BY DEF Rejected, Mine, Calls
        <2>2. w \in Calls /\ answer'[w] = IF w \in sent THEN "refused" ELSE answer[w]
            BY DEF WorkerDies, Calls
        <2>3. phase'[w] = IF w \in sent THEN "done" ELSE phase[w]
            BY <2>2 DEF WorkerDies
        <2> QED BY <2>1, <2>2, <2>3
    <1>3. /\ inbox' \in [Procs -> Seq(Message)] /\ outbox' \in [Procs -> Seq(Message)]
          /\ checked' \in [Procs -> BOOLEAN]
          /\ Messages' /\ OneMessage' /\ Checked'
        BY <1>1, <1>2, Cleared
    <1>4. TypeOK'
        <2>1. queue' \in [Procs -> Seq(Writes)]
            BY <1>0, <1>1, Advanced
        <2>2. phase' \in [Calls -> {"idle", "queued", "refresh", "draft", "sent", "done"}]
            BY <1>0 DEF TypeOK, WorkerDies
        <2>3. answer' \in [Writes -> {"none", "pending", "ok", "unchanged", "refused", "lost"}]
            BY <1>0 DEF TypeOK, WorkerDies
        <2>4. faults' \in 0..MaxFaults /\ worker' \in [Procs -> BOOLEAN]
            BY <1>0, CallsAssumption DEF TypeOK, WorkerDies, Fault
        <2>5. life' \in [Procs -> {"off", "init", "boot", "up", "draining", "closing"}]
            BY <1>0 DEF TypeOK, WorkerDies
        <2> QED BY <1>0, <1>1, <1>3, <2>1, <2>2, <2>3, <2>4, <2>5 DEF TypeOK
    <1>5. Told'
        BY <1>2 DEF StoreInv, Told, Active
    <1>6. Chain'
        <2>1. ASSUME NEW w \in Writes, Active(w)' PROVE Turn(w)'
            <3>1. phase'[w] = phase[w] /\ ~(Owner[w] = p /\ phase[w] \in {"refresh", "sent"})
                BY <1>2, <2>1 DEF Active
            <3>2. Turn(w) /\ Owner[w] \in Procs
                BY <2>1, <3>1, CallsAssumption DEF Active, StoreInv, Chain, Calls
            <3>3. w \notin sent
                BY <3>1 DEF Rejected, Mine
            <3>4. queue'[Owner[w]] = queue[Owner[w]]
                BY <1>0, <1>1, <3>2, <3>3, Advanced DEF Turn
            <3> QED BY <3>2, <3>4 DEF Turn
        <2> QED BY <2>1 DEF Chain
    <1>7. Drafts' /\ Caches'
        BY <1>1, <1>2 DEF StoreInv, Drafts, Caches, Past
    <1> QED BY <1>3, <1>4, <1>5, <1>6, <1>7 DEF StoreInv

(* An answer settles the promise with its id.                              *)
LEMMA ReceiveKeeps ==
    ASSUME OneWriter, StoreInv, NEW p \in Procs, Receive(p) PROVE StoreInv'
    <1> DEFINE m == Head(outbox[p])
               c == m.from
    <1>0. TypeOK /\ outbox[p] # <<>> /\ outbox' = [outbox EXCEPT ![p] = Tail(@)]
          /\ UNCHANGED <<db, worker, checked, awaited, boots, faults>>
        BY DEF StoreInv, Receive
    <1>1. /\ m = outbox[p][1] /\ m \in Message /\ outbox' \in [Procs -> Seq(Message)]
          /\ Shorter(outbox[p], outbox'[p])
        BY <1>0, Taken
    <1>2. Answered(p, m)
        BY <1>1, ShorterElements DEF StoreInv, Messages
    <1>3. m.snap \in Snapshot /\ c \in Calls \cup Procs /\ Past(m.snap) /\ cache[p] \in Snapshot
          /\ Past(cache[p])
        BY <1>0, <1>1, <1>2 DEF Message, Answered, TypeOK, StoreInv, Caches
    <1>4. ASSUME NEW s \in Snapshot, Past(s), Refreshed(c, s),
                 c \in Writes => phase[c] = "refresh" /\ s = db,
                 UNCHANGED <<queue, answer, inbox>>
          PROVE  /\ phase' \in [Calls -> {"idle", "queued", "refresh", "draft", "sent", "done"}]
                 /\ base' \in [Writes -> Snapshot]
                 /\ Messages' /\ OneMessage' /\ Checked'
                 /\ Told' /\ Chain' /\ Drafts'
        <2>1. /\ phase' \in [Calls -> {"idle", "queued", "refresh", "draft", "sent", "done"}]
              /\ base' \in [Writes -> Snapshot]
            BY <1>0, <1>4 DEF TypeOK, Refreshed
        <2>2. \A v \in Writes : v # c => phase'[v] = phase[v] /\ base'[v] = base[v]
            BY <1>0, <1>4 DEF TypeOK, Refreshed
        <2>3. c \in Writes => phase'[c] = "draft" /\ base'[c] = s
            BY <1>0, <1>4 DEF TypeOK, Refreshed, Calls
        <2>4. Messages' /\ OneMessage' /\ Checked'
            <3>1. \A v \in Writes : v # outbox[p][1].from => phase'[v] = phase[v]
                BY <1>1, <2>2
            <3>2. UNCHANGED <<inbox, db, checked>>
                BY <1>0, <1>4
            <3> QED BY <1>0, <3>1, <3>2, TakenFrom
        <2>5. Told'
            BY <1>4, <2>2, <2>3 DEF StoreInv, Told, Active
        <2>6. Chain'
            BY <1>4, <2>2, <2>3 DEF StoreInv, Chain, Active, Turn
        <2>7. Drafts'
            BY <1>0, <1>4, <2>2, <2>3 DEF StoreInv, Drafts
        <2> QED BY <2>1, <2>4, <2>5, <2>6, <2>7
    <1>5. ASSUME c \in Writes, phase[c] = "sent", NEW a \in {"ok", "refused"}, Settle(c, a),
                 UNCHANGED <<base, inbox>>
          PROVE  /\ queue' \in [Procs -> Seq(Writes)]
                 /\ phase' \in [Calls -> {"idle", "queued", "refresh", "draft", "sent", "done"}]
                 /\ answer' \in [Writes -> {"none", "pending", "ok", "unchanged", "refused", "lost"}]
                 /\ Messages' /\ OneMessage' /\ Checked'
                 /\ Told' /\ Chain' /\ Drafts'
        <2>1. Active(c) /\ Turn(c)
            BY <1>5 DEF StoreInv, Chain, Active
        <2>2. /\ queue' \in [Procs -> Seq(Writes)]
              /\ phase' \in [Calls -> {"idle", "queued", "refresh", "draft", "sent", "done"}]
              /\ answer' \in [Writes -> {"none", "pending", "ok", "unchanged", "refused", "lost"}]
              /\ \A v \in Writes : v # c => phase'[v] = phase[v] /\ answer'[v] = answer[v]
              /\ Told' /\ Chain' /\ Drafts'
            <3> HIDE DEF c
            <3> QED BY <1>0, <1>5, <2>1, Settles
        <2>3. Messages' /\ OneMessage' /\ Checked'
            <3>1. \A v \in Writes : v # outbox[p][1].from => phase'[v] = phase[v]
                BY <1>1, <2>2
            <3>2. UNCHANGED <<inbox, db, checked>>
                BY <1>0, <1>5
            <3> QED BY <1>0, <3>1, <3>2, TakenFrom
        <2> QED BY <2>2, <2>3
    <1>6. CASE Initialized(p, m)
        <2>1. Messages' /\ OneMessage' /\ Checked'
            BY <1>0, <1>1, <1>6, TakenFrom DEF Initialized
        <2>2. /\ life' \in [Procs -> {"off", "init", "boot", "up", "draining", "closing"}]
              /\ cache' \in [Procs -> Snapshot]
            BY <1>0, <1>3, <1>6 DEF TypeOK, Initialized
        <2>3. TypeOK'
            BY <1>0, <1>1, <1>6, <2>2 DEF TypeOK, Initialized
        <2>4. Told' /\ Chain' /\ Drafts'
            BY <1>0, <1>6 DEF StoreInv, Initialized, Told, Chain, Active, Turn, Drafts
        <2>5. Caches'
            BY <1>0, <1>3, <1>6 DEF StoreInv, Initialized, Caches, TypeOK, Past
        <2> QED BY <2>1, <2>3, <2>4, <2>5 DEF StoreInv
    <1>7. CASE Revised(p, m)
        <2>1. m.type = "revision" /\ UNCHANGED <<life, cache, queue, answer>>
            BY <1>7 DEF Revised
        <2>2. Caches'
            BY <1>0, <2>1 DEF StoreInv, Caches, Past
        <2>3. CASE m.snap.rev = cache[p].rev /\ Refreshed(c, cache[p]) /\ UNCHANGED inbox
            <3>1. c \in Writes => phase[c] = "refresh" /\ m.snap = db
                BY <1>2, <2>1 DEF Answered
            <3>2. c \in Writes => cache[p] = db
                BY <1>3, <2>3, <3>1 DEF Past
            <3>3. /\ phase' \in [Calls -> {"idle", "queued", "refresh", "draft", "sent", "done"}]
                  /\ base' \in [Writes -> Snapshot]
                  /\ Messages' /\ OneMessage' /\ Checked' /\ Told' /\ Chain' /\ Drafts'
                BY <1>3, <1>4, <2>1, <2>3, <3>1, <3>2
            <3>4. TypeOK'
                BY <1>0, <1>1, <2>1, <2>3, <3>3 DEF TypeOK
            <3> QED BY <2>2, <3>3, <3>4 DEF StoreInv
        <2>4. CASE Post(p, Request(c, "read", Empty)) /\ UNCHANGED <<phase, base>>
            <3>1. /\ Request(c, "read", Empty) \in Message /\ Request(c, "read", Empty).from = c
                  /\ Request(c, "read", Empty).type = "read"
                BY <1>3, RequestTypes, EmptyTypes
            <3>2. Messages' /\ OneMessage' /\ Checked'
                BY <1>0, <1>1, <2>1, <2>4, <3>1, TakenAgain
            <3>3. inbox' \in [Procs -> Seq(Message)]
                BY <1>0, <2>4, <3>1, Posted
            <3>4. TypeOK'
                BY <1>0, <1>1, <2>1, <2>4, <3>3 DEF TypeOK
            <3>5. Told' /\ Chain' /\ Drafts'
                BY <1>0, <2>1, <2>4 DEF StoreInv, Told, Chain, Active, Turn, Drafts
            <3> QED BY <2>2, <3>2, <3>4, <3>5 DEF StoreInv
        <2> QED BY <1>7, <2>3, <2>4 DEF Revised
    <1>8. CASE Fetched(p, m)
        <2>1. m.type = "read" /\ cache' = [cache EXCEPT ![p] = m.snap] /\ Refreshed(c, m.snap)
              /\ UNCHANGED <<life, queue, answer, inbox>>
            BY <1>8 DEF Fetched
        <2>2. c \in Writes => phase[c] = "refresh" /\ m.snap = db
            BY <1>2, <2>1 DEF Answered
        <2>3. /\ phase' \in [Calls -> {"idle", "queued", "refresh", "draft", "sent", "done"}]
              /\ base' \in [Writes -> Snapshot]
              /\ Messages' /\ OneMessage' /\ Checked' /\ Told' /\ Chain' /\ Drafts'
            BY <1>3, <1>4, <2>1, <2>2
        <2>4. cache' \in [Procs -> Snapshot]
            BY <1>0, <1>3, <2>1 DEF TypeOK
        <2>5. TypeOK'
            BY <1>0, <1>1, <2>1, <2>3, <2>4 DEF TypeOK
        <2>6. Caches'
            BY <1>0, <1>3, <2>1 DEF StoreInv, Caches, TypeOK, Past
        <2> QED BY <2>3, <2>5, <2>6 DEF StoreInv
    <1>9. CASE Confirmed(p, m)
        <2>1. m.type = "committed" /\ cache' = [cache EXCEPT ![p] = m.snap] /\ Settle(c, "ok")
              /\ UNCHANGED <<life, base, inbox>>
            BY <1>9 DEF Confirmed
        <2>2. c \in Writes /\ phase[c] = "sent"
            BY <1>2, <2>1 DEF Answered
        <2>3. /\ queue' \in [Procs -> Seq(Writes)]
              /\ phase' \in [Calls -> {"idle", "queued", "refresh", "draft", "sent", "done"}]
              /\ answer' \in [Writes -> {"none", "pending", "ok", "unchanged", "refused", "lost"}]
              /\ Messages' /\ OneMessage' /\ Checked' /\ Told' /\ Chain' /\ Drafts'
            BY <1>5, <2>1, <2>2
        <2>4. cache' \in [Procs -> Snapshot]
            BY <1>0, <1>3, <2>1 DEF TypeOK
        <2>5. TypeOK'
            BY <1>0, <1>1, <2>1, <2>3, <2>4 DEF TypeOK
        <2>6. Caches'
            BY <1>0, <1>3, <2>1 DEF StoreInv, Caches, TypeOK, Past
        <2> QED BY <2>3, <2>5, <2>6 DEF StoreInv
    <1>10. CASE Refused(p, m)
        <2>1. m.type \in {"conflict", "failed"} /\ Settle(c, "refused")
              /\ UNCHANGED <<life, cache, base, inbox>>
            BY <1>10 DEF Refused
        <2>2. c \in Writes /\ phase[c] = "sent"
            BY <1>2, <2>1 DEF Answered
        <2>3. /\ queue' \in [Procs -> Seq(Writes)]
              /\ phase' \in [Calls -> {"idle", "queued", "refresh", "draft", "sent", "done"}]
              /\ answer' \in [Writes -> {"none", "pending", "ok", "unchanged", "refused", "lost"}]
              /\ Messages' /\ OneMessage' /\ Checked' /\ Told' /\ Chain' /\ Drafts'
            BY <1>5, <2>1, <2>2
        <2>4. TypeOK'
            BY <1>0, <1>1, <2>1, <2>3 DEF TypeOK
        <2>5. Caches'
            BY <1>0, <2>1 DEF StoreInv, Caches, Past
        <2> QED BY <2>3, <2>4, <2>5 DEF StoreInv
    <1> QED BY <1>6, <1>7, <1>8, <1>9, <1>10 DEF Receive

-----------------------------------------------------------------------------
(* The invariant, and what follows from it.                                *)

(* Nothing was asked and nobody drafted.                                   *)
LEMMA InvInit == Init => StoreInv
    <1> SUFFICES ASSUME Init PROVE StoreInv
        OBVIOUS
    <1>1. Empty \in Snapshot /\ Empty.val = {} /\ Past(Empty)
        BY DEF Init, Empty, Snapshot, Past
    <1>2. TypeOK
        <2>1. <<>> \in Seq(Writes) /\ <<>> \in Seq(Message)
            OBVIOUS
        <2> QED BY <1>1, <2>1, CallsAssumption DEF Init, TypeOK
    <1>3. Told /\ Chain /\ Drafts
        BY <1>1 DEF Init, Told, Chain, Drafts, Active, Calls
    <1>4. Messages /\ OneMessage /\ Caches /\ Checked
        BY <1>1 DEF Init, Messages, OneMessage, Few, Quiet, Caches, Checked
    <1> QED BY <1>2, <1>3, <1>4 DEF StoreInv

(* Every step keeps the invariant.                                         *)
LEMMA InvNext == ASSUME OneWriter PROVE StoreInv /\ [Next]_vars => StoreInv'
    <1> SUFFICES ASSUME StoreInv, [Next]_vars PROVE StoreInv'
        OBVIOUS
    <1>1. ASSUME NEW p \in Procs, ProcNext(p) PROVE StoreInv'
        <2>1. CASE Boot(p) \/ Close(p)
            BY <2>1, BootKeeps, CloseKeeps
        <2>2. CASE Listen(p) \/ Drain(p)
            BY <2>2, LifeKeeps
        <2>3. CASE Receive(p)
            BY <2>3, ReceiveKeeps
        <2>4. CASE Serve(p) \/ Check(p) \/ Rollback(p)
            BY <2>4, WorkerKeeps
        <2>5. CASE Commit(p)
            BY <2>5, CommitKeeps
        <2>6. CASE Exit(p) \/ Crash(p)
            BY <2>6, EndKeeps
        <2>7. CASE WorkerDies(p)
            BY <2>7, WorkerDiesKeeps
        <2> QED BY <1>1, <2>1, <2>2, <2>3, <2>4, <2>5, <2>6, <2>7 DEF ProcNext
    <1>2. ASSUME NEW w \in Writes, Issue(w) \/ Refresh(w) \/ Draft(w) PROVE StoreInv'
        BY <1>2, IssueKeeps, RefreshKeeps, DraftKeeps
    <1>3. ASSUME NEW r \in Reads, Read(r) PROVE StoreInv'
        BY <1>3, ReadKeeps
    <1>4. CASE UNCHANGED vars
        <2>1. Messages' /\ OneMessage' /\ Checked'
            BY <1>4, Still DEF vars
        <2>2. TypeOK' /\ Told' /\ Chain' /\ Drafts' /\ Caches'
            BY <1>4 DEF vars, StoreInv, TypeOK, Told, Chain, Active, Turn, Drafts, Caches, Past
        <2> QED BY <2>1, <2>2 DEF StoreInv
    <1> QED BY <1>1, <1>2, <1>3, <1>4 DEF Next

(* The invariant holds in every reachable state.                           *)
THEOREM Invariance == ASSUME OneWriter PROVE Spec => []StoreInv
    <1>1. Init => StoreInv
        BY InvInit
    <1>2. StoreInv /\ [Next]_vars => StoreInv'
        BY InvNext
    <1> QED BY <1>1, <1>2, PTL DEF Spec

(* Every variable of the store keeps its type: a call is always in one of  *)
(* its phases, and whatever is in a box is a message.                      *)
THEOREM TypeCorrect == ASSUME OneWriter PROVE Spec => []TypeOK
    <1>1. StoreInv => TypeOK
        BY DEF StoreInv
    <1> QED BY <1>1, Invariance, PTL

(* When one process writes, the worker never answers conflict: the queue   *)
(* of enqueueMutation alone keeps its writes apart.                        *)
THEOREM WritesDoNotConflict == ASSUME OneWriter PROVE Spec => []NoConflict
    <1>1. StoreInv => NoConflict
        <2> SUFFICES ASSUME StoreInv, NEW p \in Procs, NEW i \in DOMAIN outbox[p]
                     PROVE  outbox[p][i].type # "conflict"
            BY DEF NoConflict
        <2>1. i \in 1..Len(outbox[p])
            BY DEF StoreInv, TypeOK
        <2>2. Answered(p, outbox[p][i])
            BY <2>1 DEF StoreInv, Messages
        <2> QED BY <2>2 DEF Answered
    <1> QED BY <1>1, Invariance, PTL

(* Writes that end with an error or with their process are a failure of    *)
(* the serial store, or no step of it if there are none.                   *)
LEMMA Fails ==
    ASSUME TypeOK, NEW W \in SUBSET Writes, \A w \in W : answer[w] = "pending",
           NEW a \in {"refused", "lost"}, UNCHANGED db,
           answer' = [w \in Writes |-> IF w \in W THEN a ELSE answer[w]]
    PROVE  Serial!Next \/ UNCHANGED <<db.val, answer>>
    <1>1. CASE W = {}
        BY <1>1 DEF TypeOK
    <1>2. CASE W # {}
        <2>1. W \in (SUBSET {w \in Writes : Serial!Pending(w)}) \ {{}}
            BY <1>2 DEF Serial!Pending
        <2>2. Serial!Fail
            BY <2>1 DEF Serial!Fail
        <2> QED BY <2>2 DEF Serial!Next
    <1> QED BY <1>1, <1>2

(* A write that is refused fails, in the abstract store too.               *)
LEMMA FailsOne ==
    ASSUME TypeOK, NEW w \in Writes, answer[w] = "pending", Settle(w, "refused"), UNCHANGED db
    PROVE  Serial!Next \/ UNCHANGED <<db.val, answer>>
    <1>1. answer' = [v \in Writes |-> IF v \in {w} THEN "refused" ELSE answer[v]]
        BY DEF TypeOK, Settle
    <1> QED BY <1>1, Fails

(* What a call of mutate does is a step of the serial store.               *)
LEMMA WriteStep ==
    ASSUME StoreInv, NEW w \in Writes, Issue(w) \/ Refresh(w) \/ Draft(w)
    PROVE  Serial!Next \/ UNCHANGED <<db.val, answer>>
    <1>0. TypeOK /\ UNCHANGED db
        BY DEF StoreInv, Issue, Refresh, Draft
    <1>1. CASE Issue(w)
        <2>1. Serial!Issue(w)
            BY <1>0, <1>1 DEF Issue, Serial!Issue
        <2> QED BY <2>1 DEF Serial!Next
    <1>2. CASE Refresh(w)
        <2>1. answer[w] = "pending"
            BY <1>2 DEF Refresh, StoreInv, Told
        <2>2. Settle(w, "refused") \/ UNCHANGED answer
            BY <1>2 DEF Refresh
        <2> QED BY <1>0, <2>1, <2>2, FailsOne
    <1>3. CASE Draft(w)
        <2>1. answer[w] = "pending" /\ w \notin db.val
            BY <1>3 DEF Draft, StoreInv, Told, Active, Drafts
        <2>2. CASE Settle(w, "unchanged")
            <3>1. Serial!Skip(w)
                BY <1>0, <2>1, <2>2 DEF Settle, Serial!Skip, Serial!Pending
            <3> QED BY <3>1 DEF Serial!Next
        <2>3. CASE Settle(w, "refused") \/ UNCHANGED answer
            BY <1>0, <2>1, <2>3, FailsOne
        <2> QED BY <1>3, <2>2, <2>3 DEF Draft
    <1> QED BY <1>1, <1>2, <1>3

(* What the delivery of an answer does is a step of the serial store: a    *)
(* confirmed write is in the value.                                        *)
LEMMA ReceiveStep ==
    ASSUME StoreInv, NEW p \in Procs, Receive(p)
    PROVE  Serial!Next \/ UNCHANGED <<db.val, answer>>
    <1> DEFINE m == Head(outbox[p])
               w == m.from
    <1>1. TypeOK /\ outbox[p] # <<>> /\ outbox' = [outbox EXCEPT ![p] = Tail(@)] /\ UNCHANGED db
        BY DEF StoreInv, Receive
    <1>2. Answered(p, m)
        <2>1. m = outbox[p][1] /\ Shorter(outbox[p], outbox'[p])
            BY <1>1, Taken
        <2> QED BY <2>1, ShorterElements DEF StoreInv, Messages
    <1>3. CASE Confirmed(p, m)
        <2>1. w \in Writes /\ phase[w] = "sent" /\ w \in db.val
            BY <1>2, <1>3 DEF Confirmed, Answered
        <2>2. answer[w] = "pending"
            BY <2>1 DEF StoreInv, Told, Active
        <2>3. Serial!Confirm(w)
            BY <1>1, <1>3, <2>1, <2>2 DEF Confirmed, Settle, Serial!Confirm, Serial!Pending
        <2> QED BY <2>1, <2>3 DEF Serial!Next
    <1>4. CASE Refused(p, m)
        <2>1. w \in Writes /\ phase[w] = "sent" /\ Settle(w, "refused")
            BY <1>2, <1>4 DEF Refused, Answered
        <2>2. answer[w] = "pending"
            BY <2>1 DEF StoreInv, Told, Active
        <2> HIDE DEF w
        <2> QED BY <1>1, <2>1, <2>2, FailsOne
    <1>5. CASE Initialized(p, m) \/ Revised(p, m) \/ Fetched(p, m)
        BY <1>1, <1>5 DEF Initialized, Revised, Fetched
    <1> QED BY <1>3, <1>4, <1>5 DEF Receive

(* What a process and its worker do is a step of the serial store.         *)
LEMMA ProcStep ==
    ASSUME OneWriter, StoreInv, NEW p \in Procs, ProcNext(p)
    PROVE  Serial!Next \/ UNCHANGED <<db.val, answer>>
    <1>0. TypeOK
        BY DEF StoreInv
    <1>1. CASE Boot(p) \/ Listen(p) \/ Drain(p) \/ Close(p) \/ Serve(p) \/ Check(p) \/ Rollback(p)
        BY <1>1 DEF Boot, Listen, Drain, Close, Serve, Check, Rollback
    <1>2. CASE Receive(p)
        BY <1>2, ReceiveStep
    <1>3. CASE Commit(p)
        <2>1. PICK w \in Writes :
                  answer[w] = "pending" /\ w \notin db.val
                  /\ db' = [rev |-> db.rev + 1, val |-> db.val \cup {w}]
            BY <1>3, Commits
        <2>2. UNCHANGED answer /\ db'.val = db.val \cup {w}
            BY <1>3, <2>1 DEF Commit
        <2>3. Serial!Commit(w)
            BY <2>1, <2>2 DEF Serial!Commit, Serial!Pending
        <2> QED BY <2>3 DEF Serial!Next
    <1>4. CASE Exit(p) \/ Crash(p)
        <2>1. /\ \E a \in {"refused", "lost"} :
                     answer' = [w \in Writes |-> IF w \in Pending(p) THEN a ELSE answer[w]]
              /\ UNCHANGED db
            BY <1>4 DEF Exit, Crash, Abandon
        <2>2. Pending(p) \subseteq Writes /\ \A w \in Pending(p) : answer[w] = "pending"
            BY DEF Pending
        <2> QED BY <1>0, <2>1, <2>2, Fails
    <1>5. CASE WorkerDies(p)
        <2> DEFINE W == {w \in Writes : w \in Rejected(p)}
        <2>1. answer' = [w \in Writes |-> IF w \in W THEN "refused" ELSE answer[w]] /\ UNCHANGED db
            BY <1>5 DEF WorkerDies
        <2>2. \A w \in W : answer[w] = "pending"
            BY DEF Rejected, StoreInv, Told, Active
        <2> HIDE DEF W
        <2>3. W \subseteq Writes
            BY DEF W
        <2> QED BY <1>0, <2>1, <2>2, <2>3, Fails
    <1> QED BY <1>1, <1>2, <1>3, <1>4, <1>5 DEF ProcNext

(* When one process writes, the store is one serial value for any number   *)
(* of calls, of faults and of starts: every write is added once and on top *)
(* of the ones before, a confirmed one stays through crashes, and a        *)
(* refused or lost one takes no effect later (mutate, failPending,         *)
(* closeStateStore).                                                       *)
THEOREM StoreIsSerial == ASSUME OneWriter PROVE Spec => SerialSpec
    <1>1. Init => Serial!Init
        BY DEF Init, Empty, Serial!Init
    <1>2. StoreInv /\ [Next]_vars => [Serial!Next]_<<db.val, answer>>
        <2> SUFFICES ASSUME StoreInv, [Next]_vars
                     PROVE  Serial!Next \/ UNCHANGED <<db.val, answer>>
            OBVIOUS
        <2>1. ASSUME NEW r \in Reads, Read(r) PROVE UNCHANGED <<db.val, answer>>
            BY <2>1 DEF Read
        <2>2. CASE UNCHANGED vars
            BY <2>2 DEF vars
        <2> QED BY <2>1, <2>2, ProcStep, WriteStep DEF Next
    <1> QED BY <1>1, <1>2, Invariance, PTL DEF Spec, SerialSpec, Serial!Spec

-----------------------------------------------------------------------------
(* The snapshot cache.                                                     *)

(* All the writes are of p.                                                *)
Sole(p) == \A w \in Writes : Owner[w] = p

(* A message of a process that is past initializeStateStore: until the     *)
(* server listens, ensureRuntime alone writes and nothing reads.           *)
Fits(p, m) == m.type # "initialize" /\ (life[p] = "boot" => m.from \in Writes)

Boxes(p) ==
    /\ life[p] = "off" => inbox[p] = <<>> /\ outbox[p] = <<>>
    /\ life[p] = "init" =>
           \/ outbox[p] = <<>> /\ Len(inbox[p]) = 1 /\ inbox[p][1].type = "initialize"
           \/ inbox[p] = <<>> /\ Len(outbox[p]) = 1 /\ outbox[p][1].type = "initialize"
    /\ life[p] # "init" => /\ \A i \in 1..Len(inbox[p]) : Fits(p, inbox[p][i])
                           /\ \A i \in 1..Len(outbox[p]) : Fits(p, outbox[p][i])

(* Only a start waits for a replacement, and for nothing else.             *)
Waiting(p) ==
    \A w \in Writes : Owner[w] = p /\ answer[w] = "pending" =>
        /\ life[p] \notin {"off", "init"}
        /\ w \in Replaces <=> life[p] = "boot"

(* Behind the answer i comes that of a commit.                             *)
Coming(p, i) == \E j \in 1..Len(outbox[p]) : j > i /\ outbox[p][j].type = "committed"

(* A replacement was not read back: the start that made it will not end    *)
(* well, so its cache serves nobody.                                       *)
Unread(p) ==
    /\ life[p] = "boot"
    /\ \/ \E i \in 1..Len(outbox[p]) : outbox[p][i].type = "failed"
       \/ \E w \in Replaces : answer[w] = "refused"

(* Cache and answers on the way are of the present state, or a commit's    *)
(* answer follows them.                                                    *)
Fresh(p) ==
    /\ worker[p] /\ life[p] \notin {"off", "init"} => cache[p] = db \/ Coming(p, 0) \/ Unread(p)
    /\ \A i \in 1..Len(outbox[p]) :
           outbox[p][i].type \in {"read", "initialize"} => outbox[p][i].snap = db \/ Coming(p, i)

Current == \A p \in Procs : Sole(p) => Fresh(p)

Starts == \A p \in Procs : Boxes(p) /\ Waiting(p)

(* Nothing happens to the boxes of p, or only writes settle.               *)
LEMMA BoxesBeside ==
    ASSUME NEW p \in Procs, Boxes(p), life'[p] = life[p],
           inbox'[p] = inbox[p], outbox'[p] = outbox[p]
    PROVE  Boxes(p)'
    BY DEF Boxes, Fits

(* A process goes on waiting while none of its writes becomes pending.     *)
LEMMA WaitingLess ==
    ASSUME NEW p \in Procs, Waiting(p), life'[p] = life[p],
           \A w \in Writes : Owner[w] = p /\ answer'[w] = "pending" => answer[w] = "pending"
    PROVE  Waiting(p)'
    BY DEF Waiting

(* A process that is past its start posts a request.                       *)
LEMMA BoxesPosted ==
    ASSUME TypeOK, NEW p \in Procs, NEW m \in Message, Post(p, m), Boxes(p), outbox'[p] = outbox[p],
           life[p] \notin {"off", "init"}, life'[p] \notin {"off", "init"},
           life'[p] = "boot" => life[p] = "boot" /\ m.from \in Writes, m.type # "initialize"
    PROVE  Boxes(p)'
    <1>1. Longer(inbox[p], inbox'[p], m)
        BY Posted
    <1>2. ASSUME NEW i \in 1..Len(inbox'[p]) PROVE Fits(p, inbox[p][i])'
        BY <1>1, <1>2, LongerElements DEF Boxes, Fits
    <1>3. ASSUME NEW i \in 1..Len(outbox'[p]) PROVE Fits(p, outbox[p][i])'
        BY <1>3 DEF Boxes, Fits
    <1> QED BY <1>2, <1>3 DEF Boxes

(* Its worker answers, with initialize to initialize and to nothing else.  *)
LEMMA BoxesReplied ==
    ASSUME TypeOK, NEW p \in Procs, inbox[p] # <<>>, NEW t \in Answers, NEW s \in Snapshot,
           Reply(p, Head(inbox[p]), t, s), Boxes(p), life'[p] = life[p],
           t = "initialize" <=> inbox[p][1].type = "initialize"
    PROVE  Boxes(p)'
    <1> DEFINE e == Request(inbox[p][1].from, t, s)
    <1>1. /\ Shorter(inbox[p], inbox'[p]) /\ Longer(outbox[p], outbox'[p], e)
          /\ inbox' \in [Procs -> Seq(Message)]
        BY Replied
    <1>2. e.type = t /\ e.from = inbox[p][1].from
        BY DEF Request
    <1>3. Len(inbox[p]) \in Nat \ {0} /\ 1 \in 1..Len(inbox[p]) /\ Len(outbox[p]) \in Nat
        BY <1>1, ShorterElements DEF Shorter, Longer
    <1> HIDE DEF e
    <1>4. CASE life[p] = "init"
        <2>1. outbox[p] = <<>> /\ Len(inbox[p]) = 1 /\ inbox[p][1].type = "initialize"
            BY <1>4 DEF Boxes
        <2>2. Len(inbox'[p]) = 0 /\ Len(outbox'[p]) = 1 /\ outbox'[p][1] = e
            BY <1>1, <2>1 DEF Shorter, Longer
        <2>3. inbox'[p] = <<>>
            BY <1>1, <2>2
        <2> QED BY <1>2, <1>4, <2>1, <2>2, <2>3 DEF Boxes
    <1>5. CASE life[p] # "init"
        <2>1. life[p] # "off"
            BY DEF Boxes
        <2>2. ASSUME NEW i \in 1..Len(inbox'[p]) PROVE Fits(p, inbox[p][i])'
            BY <1>1, <1>5, <2>2, ShorterElements DEF Boxes, Fits
        <2>3. ASSUME NEW i \in 1..Len(outbox'[p]) PROVE Fits(p, outbox[p][i])'
            <3>1. CASE outbox'[p][i] = e
                BY <1>2, <1>3, <1>5, <3>1 DEF Boxes, Fits
            <3>2. CASE i \in 1..Len(outbox[p]) /\ outbox'[p][i] = outbox[p][i]
                BY <1>5, <3>2 DEF Boxes, Fits
            <3> QED BY <1>1, <2>3, <3>1, <3>2, LongerElements
        <2> QED BY <1>5, <2>1, <2>2, <2>3 DEF Boxes
    <1> QED BY <1>4, <1>5

(* An answer other than that of the start is delivered.                    *)
LEMMA BoxesTaken ==
    ASSUME TypeOK, NEW p \in Procs, outbox[p] # <<>>, outbox' = [outbox EXCEPT ![p] = Tail(@)],
           inbox'[p] = inbox[p], life'[p] = life[p], outbox[p][1].type # "initialize", Boxes(p)
    PROVE  Boxes(p)' /\ life[p] \notin {"off", "init"}
    <1>1. Shorter(outbox[p], outbox'[p])
        BY Taken
    <1>2. life[p] \notin {"off", "init"}
        BY DEF Boxes
    <1>3. ASSUME NEW i \in 1..Len(outbox'[p]) PROVE Fits(p, outbox[p][i])'
        BY <1>1, <1>2, <1>3, ShorterElements DEF Boxes, Fits
    <1>4. ASSUME NEW i \in 1..Len(inbox'[p]) PROVE Fits(p, inbox[p][i])'
        BY <1>2, <1>4 DEF Boxes, Fits
    <1> QED BY <1>2, <1>3, <1>4 DEF Boxes

(* Both boxes are dropped.                                                 *)
LEMMA BoxesEmpty ==
    ASSUME NEW p \in Procs, inbox'[p] = <<>>, outbox'[p] = <<>>, life'[p] # "init"
    PROVE  Boxes(p)'
    BY DEF Boxes

(* A step of p concerns the boxes of no other process and settles at most  *)
(* the writes of others.                                                   *)
LEMMA StartsBeside ==
    ASSUME Starts, NEW p \in Procs,
           \A q \in Procs : q # p => /\ life'[q] = life[q]
                                     /\ inbox'[q] = inbox[q] /\ outbox'[q] = outbox[q],
           \A w \in Writes : Owner[w] # p /\ answer'[w] = "pending" => answer[w] = "pending",
           Boxes(p)', Waiting(p)'
    PROVE  Starts'
    <1>1. ASSUME NEW q \in Procs, q # p PROVE Boxes(q)' /\ Waiting(q)'
        BY <1>1, BoxesBeside, WaitingLess DEF Starts
    <1> QED BY <1>1 DEF Starts

(* The calls of mutate, of writeState and of readState.                    *)
LEMMA StartsCall ==
    ASSUME StoreInv, Starts, NEW w \in Writes, Issue(w) \/ Refresh(w) \/ Draft(w)
    PROVE  Starts'
    <1> DEFINE p == Owner[w]
    <1>0. /\ p \in Procs /\ w \in Calls /\ TypeOK /\ UNCHANGED <<life, outbox>>
          /\ Boxes(p) /\ Waiting(p)
        BY CallsAssumption DEF Calls, StoreInv, Starts, Issue, Refresh, Draft
    <1>1. \A v \in Writes : v # w => answer'[v] = answer[v]
        <2>1. \/ UNCHANGED answer
              \/ \E a \in {"pending", "refused", "unchanged"} : answer' = [answer EXCEPT ![w] = a]
            BY DEF Issue, Refresh, Draft, Settle
        <2> QED BY <1>0, <2>1 DEF TypeOK
    <1>2. CASE Issue(w)
        <2>1. UNCHANGED inbox
            BY <1>2 DEF Issue
        <2>2. IF w \in Replaces THEN life[p] = "boot" ELSE life[p] \in {"up", "draining"}
            BY <1>2 DEF Issue
        <2>3. Waiting(p)'
            BY <1>0, <1>1, <2>2 DEF Waiting
        <2>4. Boxes(p)'
            BY <1>0, <2>1, BoxesBeside
        <2> QED BY <1>0, <1>1, <2>1, <2>3, <2>4, StartsBeside
    <1>3. CASE Refresh(w) \/ Draft(w)
        <2>1. answer[w] = "pending"
            BY <1>3 DEF Refresh, Draft, StoreInv, Told, Active
        <2>2. life[p] \notin {"off", "init"}
            BY <1>0, <2>1 DEF Waiting
        <2>3. Waiting(p)'
            BY <1>0, <1>1, <2>1, WaitingLess
        <2>4. \/ UNCHANGED inbox
              \/ Post(p, Request(w, "revision", Empty))
              \/ Post(p, Request(w, "apply", base[w]))
            BY <1>3 DEF Refresh, Draft
        <2>5. ASSUME NEW t \in {"revision", "apply"}, NEW s \in Snapshot, Post(p, Request(w, t, s))
              PROVE  Boxes(p)' /\ \A q \in Procs : q # p => inbox'[q] = inbox[q]
            <3>1. /\ Request(w, t, s) \in Message /\ Request(w, t, s).from = w
                  /\ Request(w, t, s).type = t
                BY <1>0, RequestTypes
            <3>2. \A q \in Procs : q # p => inbox'[q] = inbox[q]
                BY <1>0, <2>5, <3>1, Posted
            <3>3. Boxes(p)'
                BY <1>0, <2>2, <2>5, <3>1, BoxesPosted
            <3> QED BY <3>2, <3>3
        <2>6. Empty \in Snapshot /\ base[w] \in Snapshot
            BY <1>0, EmptyTypes DEF TypeOK
        <2>7. Boxes(p)' /\ \A q \in Procs : q # p => inbox'[q] = inbox[q]
            <3>1. CASE UNCHANGED inbox
                BY <1>0, <3>1, BoxesBeside
            <3> QED BY <2>4, <2>5, <2>6, <3>1
        <2> QED BY <1>0, <1>1, <2>1, <2>3, <2>7, StartsBeside
    <1> QED BY <1>2, <1>3

(* A read, which only a listening process makes, disturbs no start.        *)
LEMMA StartsRead ==
    ASSUME StoreInv, Starts, NEW r \in Reads, Read(r)
    PROVE  Starts'
    <1> DEFINE p == Owner[r]
    <1>0. /\ p \in Procs /\ r \in Calls /\ TypeOK /\ UNCHANGED <<life, outbox, answer>>
          /\ Boxes(p) /\ Waiting(p) /\ life[p] \in {"up", "draining"}
        BY CallsAssumption DEF Calls, StoreInv, Starts, Read
    <1>1. Waiting(p)'
        BY <1>0, WaitingLess
    <1>2. CASE UNCHANGED inbox
        <2>1. Boxes(p)'
            BY <1>0, <1>2, BoxesBeside
        <2> QED BY <1>0, <1>1, <1>2, <2>1, StartsBeside
    <1>3. CASE Post(p, Request(r, "revision", Empty))
        <2>1. /\ Request(r, "revision", Empty) \in Message
              /\ Request(r, "revision", Empty).type = "revision"
            BY <1>0, RequestTypes, EmptyTypes
        <2>2. \A q \in Procs : q # p => inbox'[q] = inbox[q]
            BY <1>0, <1>3, <2>1, Posted
        <2>3. Boxes(p)'
            BY <1>0, <1>3, <2>1, BoxesPosted
        <2> QED BY <1>0, <1>1, <2>2, <2>3, StartsBeside
    <1> QED BY <1>2, <1>3 DEF Read

(* The life of a process from ensureRuntime to its end.                    *)
LEMMA StartsBoot ==
    ASSUME StoreInv, Starts, NEW p \in Procs, Boot(p)
    PROVE  Starts'
    <1> DEFINE m == Request(p, "initialize", Empty)
    <1>0. /\ TypeOK /\ Boxes(p) /\ Waiting(p) /\ UNCHANGED <<outbox, answer>>
          /\ life[p] = "off" /\ life' = [life EXCEPT ![p] = "init"] /\ Post(p, m)
        BY DEF StoreInv, Starts, Boot
    <1>1. m \in Message /\ m.type = "initialize"
        BY RequestTypes, EmptyTypes
    <1>2. Longer(inbox[p], inbox'[p], m) /\ \A q \in Procs : q # p => inbox'[q] = inbox[q]
        BY <1>0, <1>1, Posted
    <1>3. life'[p] = "init" /\ \A q \in Procs : q # p => life'[q] = life[q]
        BY <1>0 DEF TypeOK
    <1>4. Boxes(p)'
        <2>1. inbox[p] = <<>> /\ outbox[p] = <<>>
            BY <1>0 DEF Boxes
        <2>2. Len(inbox'[p]) = 1 /\ inbox'[p][1] = m
            BY <1>2, <2>1 DEF Longer
        <2> HIDE DEF m
        <2> QED BY <1>0, <1>1, <1>3, <2>1, <2>2 DEF Boxes
    <1>5. Waiting(p)'
        BY <1>0 DEF Waiting
    <1> QED BY <1>0, <1>2, <1>3, <1>4, <1>5, StartsBeside

(* Neither do the steps by which a process begins to serve and closes.     *)
LEMMA StartsLife ==
    ASSUME StoreInv, Starts, NEW p \in Procs, Listen(p) \/ Drain(p) \/ Close(p)
    PROVE  Starts'
    <1>0. TypeOK /\ Boxes(p) /\ Waiting(p) /\ UNCHANGED <<outbox, answer>>
        BY DEF StoreInv, Starts, Listen, Drain, Close
    <1>1. /\ life[p] \in {"boot", "up", "draining"} /\ life'[p] \in {"up", "draining", "closing"}
          /\ \A q \in Procs : q # p => life'[q] = life[q]
        BY <1>0 DEF TypeOK, Listen, Drain, Close
    <1>2. Waiting(p)'
        <2>1. CASE life[p] = "boot"
            <3>1. Pending(p) = {}
                BY <2>1 DEF Listen, Drain, Close
            <3>2. \A w \in Writes : Owner[w] = p => answer[w] # "pending"
                BY <3>1 DEF Pending, Mine, Calls
            <3> QED BY <1>0, <3>2 DEF Waiting
        <2>2. CASE life[p] # "boot"
            BY <1>0, <1>1, <2>2 DEF Waiting
        <2> QED BY <2>1, <2>2
    <1>3. CASE UNCHANGED inbox
        <2>1. Boxes(p)'
            BY <1>0, <1>1, <1>3 DEF Boxes, Fits
        <2> QED BY <1>0, <1>1, <1>2, <1>3, <2>1, StartsBeside
    <1>4. CASE Post(p, Request(p, "close", Empty))
        <2>1. Request(p, "close", Empty) \in Message /\ Request(p, "close", Empty).type = "close"
            BY RequestTypes, EmptyTypes
        <2>2. \A q \in Procs : q # p => inbox'[q] = inbox[q]
            BY <1>0, <1>4, <2>1, Posted
        <2>3. Boxes(p)'
            BY <1>0, <1>1, <1>4, <2>1, BoxesPosted
        <2> QED BY <1>0, <1>1, <1>2, <2>2, <2>3, StartsBeside
    <1> QED BY <1>3, <1>4 DEF Listen, Drain, Close

(* A process or worker that ends takes its start with it.                  *)
LEMMA StartsEnd ==
    ASSUME StoreInv, Starts, NEW p \in Procs, Exit(p) \/ Crash(p) \/ WorkerDies(p)
    PROVE  Starts'
    <1>0. TypeOK /\ Waiting(p)
        BY DEF StoreInv, Starts
    <1>1. /\ inbox' = [inbox EXCEPT ![p] = <<>>] /\ outbox' = [outbox EXCEPT ![p] = <<>>]
          /\ \A w \in Writes : answer'[w] = "pending" => answer[w] = "pending"
        BY DEF Exit, Crash, WorkerDies, Abandon
    <1>2. \A q \in Procs : q # p => /\ life'[q] = life[q]
                                    /\ inbox'[q] = inbox[q] /\ outbox'[q] = outbox[q]
        BY <1>0, <1>1 DEF TypeOK, Exit, Crash, WorkerDies
    <1>3. Boxes(p)'
        <2>1. life'[p] # "init" /\ inbox'[p] = <<>> /\ outbox'[p] = <<>>
            BY <1>0, <1>1 DEF TypeOK, Exit, Crash, WorkerDies
        <2> QED BY <2>1, BoxesEmpty
    <1>4. Waiting(p)'
        <2>1. CASE Exit(p) \/ Crash(p)
            <3>1. PICK a \in {"refused", "lost"} :
                      answer' = [w \in Writes |-> IF w \in Pending(p) THEN a ELSE answer[w]]
                BY <2>1 DEF Exit, Crash, Abandon
            <3>2. \A w \in Writes : Owner[w] = p => answer'[w] # "pending"
                BY <3>1 DEF Pending, Mine, Calls
            <3> QED BY <3>2 DEF Waiting
        <2>2. CASE WorkerDies(p)
            <3>1. life'[p] = IF life[p] = "init" THEN "off" ELSE life[p]
                BY <1>0, <2>2 DEF TypeOK, WorkerDies
            <3> QED BY <1>0, <1>1, <3>1 DEF Waiting
        <2> QED BY <2>1, <2>2
    <1> QED BY <1>1, <1>2, <1>3, <1>4, StartsBeside

(* What the worker finds at the head of its inbox.                         *)
LEMMA Headed ==
    ASSUME StoreInv, NEW p \in Procs, inbox[p] # <<>>
    PROVE  /\ Head(inbox[p]) = inbox[p][1] /\ inbox[p][1] \in Message
           /\ 1 \in 1..Len(inbox[p]) /\ Asked(p, inbox[p][1])
    <1>1. inbox[p] \in Seq(Message)
        BY DEF StoreInv, TypeOK
    <1>2. /\ Head(inbox[p]) = inbox[p][1] /\ inbox[p][1] \in Message
          /\ Shorter(inbox[p], Tail(inbox[p]))
        BY <1>1, Tailed
    <1> QED BY <1>2, ShorterElements DEF StoreInv, Messages

(* What the worker can do: nothing that is seen, an answer with the state  *)
(* as it is, or a transaction and its answer.                              *)
LEMMA Works ==
    ASSUME StoreInv, NEW p \in Procs, Serve(p) \/ Check(p) \/ Commit(p) \/ Rollback(p)
    PROVE  /\ inbox[p] # <<>>
           /\ UNCHANGED <<life, worker, cache, answer>>
           /\ \/ UNCHANGED <<inbox, outbox, db>>
              \/ /\ UNCHANGED db
                 /\ \E t \in Answers : /\ t # "committed"
                                       /\ t = "initialize" <=> inbox[p][1].type = "initialize"
                                       /\ Reply(p, Head(inbox[p]), t, db)
              \/ /\ Commit(p)
                 /\ \E t \in {"committed", "failed"}, s \in Snapshot :
                        /\ inbox[p][1].type = "apply"
                        /\ t = "failed" => inbox[p][1].from \in Replaces
                        /\ Reply(p, Head(inbox[p]), t, s)
    <1>0. TypeOK
        BY DEF StoreInv
    <1>1. checked[p] => inbox[p] # <<>> /\ Head(inbox[p]).type = "apply"
        BY DEF StoreInv, Checked
    <1>2. inbox[p] # <<>> /\ UNCHANGED <<life, worker, cache, answer>>
        BY <1>1 DEF Serve, Check, Commit, Rollback
    <1>3. Head(inbox[p]) = inbox[p][1] /\ inbox[p][1] \in Message /\ Asked(p, inbox[p][1])
        BY <1>2, Headed
    <1> DEFINE m == inbox[p][1]
    <1>4. CASE Serve(p)
        <2> DEFINE t == IF m.type = "close" THEN "closed" ELSE m.type
        <2>1. m.type # "apply" /\ Reply(p, Head(inbox[p]), t, db) /\ UNCHANGED db
            BY <1>3, <1>4 DEF Serve
        <2>2. m.type \in {"initialize", "revision", "read", "close"}
            BY <1>3, <2>1 DEF Asked
        <2>3. t \in Answers /\ t # "committed" /\ (t = "initialize" <=> m.type = "initialize")
            BY <2>2 DEF Answers
        <2> HIDE DEF t
        <2> QED BY <1>2, <2>1, <2>3
    <1>5. CASE Check(p)
        <2>1. m.type = "apply" /\ UNCHANGED db
            BY <1>3, <1>5 DEF Check
        <2>2. CASE UNCHANGED <<inbox, outbox>>
            BY <1>2, <2>1, <2>2
        <2>3. CASE Reply(p, Head(inbox[p]), "conflict", db)
            <3>1. "conflict" \in Answers /\ m.type # "initialize"
                BY <2>1 DEF Answers
            <3> QED BY <1>2, <2>1, <2>3, <3>1
        <2> QED BY <1>3, <1>5, <2>2, <2>3 DEF Check
    <1>6. CASE Rollback(p)
        <2>1. m.type = "apply" /\ UNCHANGED db /\ Reply(p, Head(inbox[p]), "failed", db)
            BY <1>1, <1>3, <1>6 DEF Rollback
        <2>2. "failed" \in Answers /\ m.type # "initialize"
            BY <2>1 DEF Answers
        <2> QED BY <1>2, <2>1, <2>2
    <1>7. CASE Commit(p)
        <2>1. m.type = "apply"
            BY <1>1, <1>3, <1>7 DEF Commit
        <2>2. m.from \in Writes /\ m.snap \in Snapshot
            BY <1>3, <2>1 DEF Asked, Message
        <2>3. Drafted(m.from, m.snap) \in Snapshot /\ Committed(m.from, m.snap) \in Snapshot
            BY <1>0, <2>2 DEF Drafted, Committed, Snapshot, TypeOK
        <2>4. db' \in Snapshot
            BY <1>3, <1>7, <2>3 DEF Commit
        <2>5. \/ Reply(p, Head(inbox[p]), "committed", Drafted(m.from, m.snap))
              \/ m.from \in Replaces /\ Reply(p, Head(inbox[p]), "failed", db)
            BY <1>3, <1>7 DEF Commit
        <2>6. db \in Snapshot
            BY <1>0 DEF TypeOK
        <2> QED BY <1>2, <1>7, <2>1, <2>3, <2>5, <2>6
    <1> QED BY <1>4, <1>5, <1>6, <1>7

(* The worker's steps.                                                     *)
LEMMA StartsWork ==
    ASSUME StoreInv, Starts, NEW p \in Procs, Serve(p) \/ Check(p) \/ Commit(p) \/ Rollback(p)
    PROVE  Starts'
    <1>0. TypeOK /\ Boxes(p) /\ Waiting(p)
        BY DEF StoreInv, Starts
    <1>1. inbox[p] # <<>> /\ UNCHANGED <<life, worker, cache, answer>>
        BY Works
    <1>2. Waiting(p)'
        BY <1>0, <1>1, WaitingLess
    <1>3. ASSUME NEW t \in Answers, NEW s \in Snapshot, Reply(p, Head(inbox[p]), t, s),
                 t = "initialize" <=> inbox[p][1].type = "initialize"
          PROVE  Starts'
        <2>1. Boxes(p)'
            BY <1>0, <1>1, <1>3, BoxesReplied
        <2>2. \A q \in Procs : q # p => inbox'[q] = inbox[q] /\ outbox'[q] = outbox[q]
            BY <1>0, <1>1, <1>3, Replied DEF Answers
        <2> QED BY <1>1, <1>2, <2>1, <2>2, StartsBeside
    <1>4. CASE UNCHANGED <<inbox, outbox>>
        <2>1. Boxes(p)'
            BY <1>0, <1>1, <1>4, BoxesBeside
        <2> QED BY <1>1, <1>2, <1>4, <2>1, StartsBeside
    <1>5. db \in Snapshot
        BY <1>0 DEF TypeOK
    <1>6. \/ UNCHANGED <<inbox, outbox>>
          \/ \E t \in Answers, s \in Snapshot :
                 /\ t = "initialize" <=> inbox[p][1].type = "initialize"
                 /\ Reply(p, Head(inbox[p]), t, s)
        <2>1. "committed" \in Answers /\ "failed" \in Answers
            BY DEF Answers
        <2> QED BY <1>5, <2>1, Works
    <1> QED BY <1>3, <1>4, <1>6

(* What is delivered from an outbox.                                       *)
LEMMA Delivered ==
    ASSUME StoreInv, NEW p \in Procs, Receive(p)
    PROVE  /\ outbox[p] # <<>> /\ outbox' = [outbox EXCEPT ![p] = Tail(@)]
           /\ Head(outbox[p]) = outbox[p][1] /\ outbox[p][1] \in Message
           /\ 1 \in 1..Len(outbox[p]) /\ Answered(p, outbox[p][1])
           /\ Shorter(outbox[p], outbox'[p])
           /\ \A q \in Procs : q # p => outbox'[q] = outbox[q]
           /\ UNCHANGED <<db, worker>>
    <1>1. TypeOK /\ outbox[p] # <<>> /\ outbox' = [outbox EXCEPT ![p] = Tail(@)]
          /\ UNCHANGED <<db, worker>>
        BY DEF StoreInv, Receive
    <1>2. /\ Head(outbox[p]) = outbox[p][1] /\ outbox[p][1] \in Message
          /\ Shorter(outbox[p], outbox'[p])
          /\ \A q \in Procs : q # p => outbox'[q] = outbox[q]
        BY <1>1, Taken
    <1>3. 1 \in 1..Len(outbox[p])
        BY <1>2, ShorterElements
    <1> QED BY <1>1, <1>2, <1>3 DEF StoreInv, Messages

(* What an answer tells: at most one write of p is settled.                *)
LEMMA Tells ==
    ASSUME StoreInv, NEW p \in Procs, Receive(p)
    PROVE  \/ UNCHANGED answer
           \/ \E w \in Writes, a \in {"ok", "refused"} :
                  /\ Owner[w] = p /\ answer[w] = "pending"
                  /\ answer' = [answer EXCEPT ![w] = a]
    <1> DEFINE m == outbox[p][1]
    <1>1. Head(outbox[p]) = m /\ Answered(p, m)
        BY Delivered
    <1>2. CASE UNCHANGED answer
        BY <1>2
    <1>3. CASE Confirmed(p, m) \/ Refused(p, m)
        <2>1. m.type \in {"committed", "conflict", "failed"}
              /\ (Settle(m.from, "ok") \/ Settle(m.from, "refused"))
            BY <1>3 DEF Confirmed, Refused
        <2>2. m.from \in Writes /\ Owner[m.from] = p /\ phase[m.from] = "sent"
            BY <1>1, <2>1 DEF Answered
        <2>3. answer[m.from] = "pending"
            BY <2>2 DEF StoreInv, Told, Active
        <2> QED BY <2>1, <2>2, <2>3 DEF Settle
    <1> QED BY <1>1, <1>2, <1>3 DEF Receive, Initialized, Revised, Fetched

(* The delivery of an answer; that of the start is the only message.       *)
LEMMA StartsReceive ==
    ASSUME StoreInv, Starts, NEW p \in Procs, Receive(p)
    PROVE  Starts'
    <1> DEFINE m == outbox[p][1]
    <1>0. TypeOK /\ Boxes(p) /\ Waiting(p)
        BY DEF StoreInv, Starts
    <1>1. /\ outbox[p] # <<>> /\ outbox' = [outbox EXCEPT ![p] = Tail(@)] /\ Head(outbox[p]) = m
          /\ m \in Message /\ Shorter(outbox[p], outbox'[p])
          /\ 1 \in 1..Len(outbox[p])
          /\ \A q \in Procs : q # p => outbox'[q] = outbox[q]
        BY Delivered
    <1>2. ASSUME NEW w \in Writes, answer'[w] = "pending" PROVE answer[w] = "pending"
        <2>1. CASE UNCHANGED answer
            BY <1>2, <2>1
        <2>2. ASSUME NEW v \in Writes, NEW a \in {"ok", "refused"},
                     answer' = [answer EXCEPT ![v] = a]
              PROVE  answer[w] = "pending"
            BY <1>0, <1>2, <2>2 DEF TypeOK
        <2> QED BY <2>1, <2>2, Tells
    <1>3. CASE Initialized(p, m)
        <2>1. life[p] = "init" /\ life'[p] = "boot" /\ UNCHANGED <<inbox, answer>>
              /\ \A q \in Procs : q # p => life'[q] = life[q]
            BY <1>0, <1>1, <1>3 DEF Initialized, Boxes, Fits, TypeOK
        <2>2. inbox[p] = <<>> /\ Len(outbox[p]) = 1
            BY <1>0, <1>1, <2>1 DEF Boxes
        <2>3. Len(outbox'[p]) = 0 /\ Len(inbox'[p]) = 0
            BY <1>1, <2>1, <2>2 DEF Shorter
        <2>4. Boxes(p)'
            BY <2>1, <2>3 DEF Boxes
        <2>5. Waiting(p)'
            BY <1>0, <2>1 DEF Waiting
        <2> QED BY <1>1, <2>1, <2>4, <2>5, StartsBeside
    <1>4. CASE Revised(p, m) \/ Fetched(p, m) \/ Confirmed(p, m) \/ Refused(p, m)
        <2>1. m.type # "initialize" /\ UNCHANGED life
            BY <1>4 DEF Revised, Fetched, Confirmed, Refused
        <2>2. Waiting(p)'
            BY <1>0, <1>2, <2>1, WaitingLess
        <2>3. CASE UNCHANGED inbox
            <3>1. Boxes(p)'
                BY <1>0, <1>1, <2>1, <2>3, BoxesTaken
            <3> QED BY <1>1, <1>2, <2>1, <2>2, <2>3, <3>1, StartsBeside
        <2>4. CASE Post(p, Request(m.from, "read", Empty))
            <3> DEFINE n == Request(m.from, "read", Empty)
            <3>1. n \in Message /\ n.from = m.from /\ n.type = "read"
                BY <1>1, RequestTypes, EmptyTypes DEF Message
            <3>2. Longer(inbox[p], inbox'[p], n) /\ \A q \in Procs : q # p => inbox'[q] = inbox[q]
                BY <1>0, <2>4, <3>1, Posted
            <3>3. life[p] \notin {"off", "init"} /\ Fits(p, m)
                BY <1>0, <1>1, <2>1 DEF Boxes
            <3>4. ASSUME NEW i \in 1..Len(outbox'[p]) PROVE Fits(p, outbox[p][i])'
                BY <1>0, <1>1, <2>1, <3>3, <3>4, ShorterElements DEF Boxes, Fits
            <3>5. ASSUME NEW i \in 1..Len(inbox'[p]) PROVE Fits(p, inbox[p][i])'
                <4> HIDE DEF n
                <4>1. n.type # "initialize" /\ (life[p] = "boot" => n.from \in Writes)
                    BY <3>1, <3>3 DEF Fits
                <4>2. inbox'[p][i] = n \/ (i \in 1..Len(inbox[p]) /\ inbox'[p][i] = inbox[p][i])
                    BY <3>2, <3>5, LongerElements
                <4>3. CASE inbox'[p][i] = n
                    BY <2>1, <4>1, <4>3 DEF Fits
                <4>4. CASE i \in 1..Len(inbox[p]) /\ inbox'[p][i] = inbox[p][i]
                    BY <1>0, <2>1, <3>3, <4>4 DEF Boxes, Fits
                <4> QED BY <4>2, <4>3, <4>4
            <3>6. Boxes(p)'
                BY <2>1, <3>3, <3>4, <3>5 DEF Boxes
            <3> QED BY <1>1, <1>2, <2>1, <2>2, <3>2, <3>6, StartsBeside
        <2> QED BY <1>4, <2>3, <2>4 DEF Revised, Fetched, Confirmed, Refused
    <1> QED BY <1>1, <1>3, <1>4 DEF Receive

(* A refused write stays refused.                                          *)
LEMMA RefusedStays ==
    ASSUME StoreInv, Next, NEW w \in Writes, answer[w] = "refused"
    PROVE  answer'[w] = "refused"
    <1>0. TypeOK
        BY DEF StoreInv
    <1>1. ASSUME NEW v \in Writes, NEW a, answer[v] # "refused", answer' = [answer EXCEPT ![v] = a]
          PROVE  answer'[w] = "refused"
        BY <1>0, <1>1 DEF TypeOK
    <1>2. ASSUME NEW p \in Procs, ProcNext(p) PROVE answer'[w] = "refused"
        <2>1. CASE Boot(p) \/ Listen(p) \/ Drain(p) \/ Close(p)
            BY <2>1 DEF Boot, Listen, Drain, Close
        <2>2. CASE Serve(p) \/ Check(p) \/ Commit(p) \/ Rollback(p)
            BY <2>2 DEF Serve, Check, Commit, Rollback
        <2>3. CASE Receive(p)
            BY <1>1, <2>3, Tells
        <2>4. CASE Exit(p) \/ Crash(p)
            <3>1. w \notin Pending(p)
                BY DEF Pending
            <3> QED BY <2>4, <3>1 DEF Exit, Crash, Abandon
        <2>5. CASE WorkerDies(p)
            BY <2>5 DEF WorkerDies
        <2> QED BY <1>2, <2>1, <2>2, <2>3, <2>4, <2>5 DEF ProcNext
    <1>3. ASSUME NEW v \in Writes, Issue(v) \/ Refresh(v) \/ Draft(v) PROVE answer'[w] = "refused"
        <2>1. answer[v] # "refused"
            BY <1>3 DEF Issue, Refresh, Draft, StoreInv, Told, Active
        <2>2. UNCHANGED answer \/ \E a : answer' = [answer EXCEPT ![v] = a]
            BY <1>3 DEF Issue, Refresh, Draft, Settle
        <2> QED BY <1>1, <2>1, <2>2
    <1>4. ASSUME NEW r \in Reads, Read(r) PROVE answer'[w] = "refused"
        BY <1>4 DEF Read
    <1> QED BY <1>2, <1>3, <1>4 DEF Next

(* What concerns neither the cache nor the outbox of p.                    *)
LEMMA FreshBeside ==
    ASSUME NEW p \in Procs, Fresh(p), UNCHANGED db, cache'[p] = cache[p],
           outbox'[p] = outbox[p], worker'[p] = worker[p],
           life'[p] \in {"off", "init"} \/ life'[p] = life[p],
           \A w \in Writes : answer[w] = "refused" => answer'[w] = "refused"
    PROVE  Fresh(p)'
    <1>1. \A i : Coming(p, i) => Coming(p, i)'
        BY DEF Coming
    <1>2. Unread(p) /\ life'[p] = life[p] => Unread(p)'
        BY CallsAssumption DEF Unread
    <1> QED BY <1>1, <1>2 DEF Fresh

(* A read that is served is of the present state; a commit puts its own    *)
(* answer behind all older ones, or is the replacement of a start.         *)
LEMMA FreshWork ==
    ASSUME OneWriter, StoreInv, Starts, NEW p \in Procs, Sole(p), Fresh(p),
           Serve(p) \/ Check(p) \/ Commit(p) \/ Rollback(p)
    PROVE  Fresh(p)'
    <1>0. /\ TypeOK /\ Boxes(p) /\ Waiting(p) /\ db \in Snapshot
          /\ inbox[p] # <<>> /\ UNCHANGED <<life, worker, cache, answer>>
        BY Works DEF StoreInv, Starts, TypeOK
    <1>1. CASE UNCHANGED <<inbox, outbox, db>>
        BY <1>0, <1>1, FreshBeside
    <1>2. ASSUME NEW t \in Answers, NEW s \in Snapshot, Reply(p, Head(inbox[p]), t, s)
          PROVE  /\ Len(outbox[p]) \in Nat /\ Len(outbox'[p]) = Len(outbox[p]) + 1
                 /\ \A i \in 1..Len(outbox[p]) : outbox'[p][i] = outbox[p][i]
                 /\ outbox'[p][Len(outbox[p]) + 1].type = t
                 /\ outbox'[p][Len(outbox[p]) + 1].snap = s
                 /\ \A i : Coming(p, i) => Coming(p, i)'
                 /\ Unread(p) => Unread(p)'
        <2>1. Longer(outbox[p], outbox'[p], Request(inbox[p][1].from, t, s))
            BY <1>0, <1>2, Replied DEF Answers
        <2>2. /\ Len(outbox[p]) \in Nat /\ Len(outbox'[p]) = Len(outbox[p]) + 1
              /\ \A i \in 1..Len(outbox[p]) : outbox'[p][i] = outbox[p][i]
              /\ outbox'[p][Len(outbox[p]) + 1].type = t
              /\ outbox'[p][Len(outbox[p]) + 1].snap = s
            BY <2>1 DEF Longer, Request
        <2>3. \A i \in 1..Len(outbox[p]) : i \in 1..Len(outbox'[p])
            BY <2>2
        <2>4. \A i : Coming(p, i) => Coming(p, i)'
            BY <2>2, <2>3 DEF Coming
        <2>5. Unread(p) => Unread(p)'
            BY <1>0, <2>2, <2>3 DEF Unread
        <2> QED BY <2>2, <2>4, <2>5
    <1>3. ASSUME NEW t \in Answers, t # "committed", Reply(p, Head(inbox[p]), t, db), UNCHANGED db
          PROVE  Fresh(p)'
        <2>1. /\ Len(outbox[p]) \in Nat /\ Len(outbox'[p]) = Len(outbox[p]) + 1
              /\ \A i \in 1..Len(outbox[p]) : outbox'[p][i] = outbox[p][i]
              /\ outbox'[p][Len(outbox[p]) + 1].snap = db
              /\ \A i : Coming(p, i) => Coming(p, i)'
              /\ Unread(p) => Unread(p)'
            BY <1>0, <1>2, <1>3
        <2>2. ASSUME NEW i \in 1..Len(outbox'[p]), outbox'[p][i].type \in {"read", "initialize"}
              PROVE  outbox'[p][i].snap = db' \/ Coming(p, i)'
            <3>1. CASE i \in 1..Len(outbox[p])
                BY <1>3, <2>1, <2>2, <3>1 DEF Fresh
            <3>2. CASE i = Len(outbox[p]) + 1
                BY <1>3, <2>1, <3>2
            <3> QED BY <2>1, <3>1, <3>2
        <2> QED BY <1>0, <1>3, <2>1, <2>2 DEF Fresh
    <1>4. ASSUME NEW s \in Snapshot, Reply(p, Head(inbox[p]), "committed", s)
          PROVE  Fresh(p)'
        <2>1. /\ Len(outbox[p]) \in Nat /\ Len(outbox'[p]) = Len(outbox[p]) + 1
              /\ outbox'[p][Len(outbox[p]) + 1].type = "committed"
            BY <1>2, <1>4 DEF Answers
        <2>2. \A i \in 0..Len(outbox[p]) : Coming(p, i)'
            BY <2>1 DEF Coming
        <2>3. ASSUME NEW i \in 1..Len(outbox'[p]), outbox'[p][i].type \in {"read", "initialize"}
              PROVE  Coming(p, i)'
            BY <2>1, <2>2, <2>3
        <2>4. Coming(p, 0)'
            BY <2>1, <2>2
        <2> QED BY <2>3, <2>4 DEF Fresh
    <1>5. ASSUME NEW s \in Snapshot, Reply(p, Head(inbox[p]), "failed", s), Commit(p),
                 inbox[p][1].from \in Replaces
          PROVE  Fresh(p)'
        <2>1. /\ Len(outbox[p]) \in Nat /\ Len(outbox'[p]) = Len(outbox[p]) + 1
              /\ \A i \in 1..Len(outbox[p]) : outbox'[p][i] = outbox[p][i]
              /\ outbox'[p][Len(outbox[p]) + 1].type = "failed"
            BY <1>2, <1>5 DEF Answers
        <2>2. PICK w \in Writes : inbox[p][1].from = w /\ Owner[w] = p /\ answer[w] = "pending"
            BY <1>5, Commits
        <2>3. life[p] = "boot"
            BY <1>0, <1>5, <2>2 DEF Waiting
        <2>4. Unread(p)'
            <3>1. Len(outbox[p]) + 1 \in 1..Len(outbox'[p])
                BY <2>1
            <3> QED BY <1>0, <2>1, <2>3, <3>1 DEF Unread
        <2>5. Quiet(outbox[p])
            <3>1. 1 \in 1..Len(inbox[p])
                BY <1>0, Headed
            <3> QED BY <2>2, <3>1 DEF StoreInv, OneMessage, Few, Quiet
        <2>6. ASSUME NEW i \in 1..Len(outbox'[p])
              PROVE  outbox'[p][i].type \notin {"read", "initialize"}
            <3>1. CASE i \in 1..Len(outbox[p])
                BY <1>0, <2>3, <2>5, <3>1 DEF Boxes, Fits, Quiet
            <3>2. CASE i = Len(outbox[p]) + 1
                BY <2>1, <3>2
            <3> QED BY <2>1, <3>1, <3>2
        <2> QED BY <2>4, <2>6 DEF Fresh
    <1> QED BY <1>1, <1>3, <1>4, <1>5, Works

(* The cache takes an older state only if a commit's answer comes after it. *)
LEMMA FreshReceive ==
    ASSUME OneWriter, StoreInv, Starts, NEW p \in Procs, Sole(p), Fresh(p), Receive(p),
           \A w \in Writes : answer[w] = "refused" => answer'[w] = "refused"
    PROVE  Fresh(p)'
    <1> DEFINE m == outbox[p][1]
    <1>0. /\ TypeOK /\ Boxes(p) /\ Waiting(p)
          /\ Head(outbox[p]) = m /\ m \in Message /\ 1 \in 1..Len(outbox[p]) /\ Answered(p, m)
          /\ Len(outbox[p]) \in Nat \ {0} /\ Len(outbox'[p]) = Len(outbox[p]) - 1
          /\ \A i \in 1..Len(outbox'[p]) : outbox'[p][i] = outbox[p][i + 1]
          /\ UNCHANGED <<db, worker>>
        BY Delivered DEF StoreInv, Starts, Shorter
    <1>1. ASSUME NEW i \in Nat, Coming(p, i + 1) PROVE Coming(p, i)'
        <2>1. PICK j \in 1..Len(outbox[p]) : j > i + 1 /\ outbox[p][j].type = "committed"
            BY <1>1 DEF Coming
        <2>2. j - 1 \in 1..Len(outbox'[p]) /\ j - 1 > i /\ outbox'[p][j - 1] = outbox[p][j]
            BY <1>0, <2>1
        <2> QED BY <2>1, <2>2 DEF Coming
    <1>2. ASSUME NEW i \in 1..Len(outbox'[p]), outbox'[p][i].type \in {"read", "initialize"}
          PROVE  outbox'[p][i].snap = db' \/ Coming(p, i)'
        <2>1. i + 1 \in 1..Len(outbox[p]) /\ outbox'[p][i] = outbox[p][i + 1] /\ i \in Nat
            BY <1>0
        <2> QED BY <1>0, <1>1, <1>2, <2>1 DEF Fresh
    <1>3. ASSUME m.type \in {"read", "initialize"}, cache'[p] = m.snap
          PROVE  Fresh(p)'
        <2>1. m.snap = db \/ Coming(p, 0 + 1)
            BY <1>0, <1>3 DEF Fresh
        <2>2. cache'[p] = db' \/ Coming(p, 0)'
            BY <1>0, <1>1, <1>3, <2>1
        <2> QED BY <1>2, <2>2 DEF Fresh
    <1>4. ASSUME m.type # "committed", Coming(p, 0) PROVE Coming(p, 0)'
        <2>1. PICK j \in 1..Len(outbox[p]) : j > 0 /\ outbox[p][j].type = "committed"
            BY <1>4 DEF Coming
        <2>2. j > 0 + 1
            BY <1>0, <1>4, <2>1
        <2>3. Coming(p, 0 + 1)
            BY <2>1, <2>2 DEF Coming
        <2> QED BY <1>1, <2>3
    <1>5. CASE Initialized(p, m) \/ Fetched(p, m)
        <2>1. m.type \in {"read", "initialize"} /\ cache'[p] = m.snap
            BY <1>0, <1>5 DEF Initialized, Fetched, TypeOK
        <2> QED BY <1>3, <2>1
    <1>6. CASE Confirmed(p, m)
        <2>1. m.type = "committed" /\ cache'[p] = m.snap
            BY <1>0, <1>6 DEF Confirmed, TypeOK
        <2>2. m.snap = db
            BY <1>0, <2>1 DEF Answered
        <2> QED BY <1>0, <1>2, <2>1, <2>2 DEF Fresh
    <1>7. CASE Revised(p, m) \/ Refused(p, m)
        <2>1. m.type \in {"revision", "conflict", "failed"} /\ UNCHANGED <<cache, life>>
            BY <1>7 DEF Revised, Refused
        <2>2. ASSUME Unread(p) PROVE Unread(p)'
            <3>1. life'[p] = "boot"
                BY <2>1, <2>2 DEF Unread
            <3>2. CASE \E w \in Replaces : answer[w] = "refused"
                BY <3>1, <3>2, CallsAssumption DEF Unread
            <3>3. ASSUME NEW i \in 1..Len(outbox[p]), outbox[p][i].type = "failed", i # 1
                  PROVE  Unread(p)'
                <4>1. i - 1 \in 1..Len(outbox'[p]) /\ outbox'[p][i - 1] = outbox[p][i]
                    BY <1>0, <3>3
                <4> QED BY <3>1, <3>3, <4>1 DEF Unread
            <3>4. CASE m.type = "failed"
                <4>1. m.from \in Writes /\ phase[m.from] = "sent" /\ Settle(m.from, "refused")
                    BY <1>0, <1>7, <3>4 DEF Answered, Revised, Refused
                <4>2. answer[m.from] = "pending" /\ Owner[m.from] = p
                    BY <4>1 DEF StoreInv, Told, Active, Sole
                <4>3. m.from \in Replaces
                    BY <1>0, <2>2, <4>1, <4>2 DEF Waiting, Unread
                <4>4. answer'[m.from] = "refused"
                    BY <1>0, <4>1 DEF Settle, TypeOK
                <4> QED BY <3>1, <4>3, <4>4 DEF Unread
            <3> QED BY <2>2, <3>2, <3>3, <3>4 DEF Unread
        <2>3. worker'[p] /\ life'[p] \notin {"off", "init"}
              => cache'[p] = db' \/ Coming(p, 0)' \/ Unread(p)'
            BY <1>0, <1>4, <2>1, <2>2 DEF Fresh
        <2> QED BY <1>2, <2>3 DEF Fresh
    <1> QED BY <1>0, <1>5, <1>6, <1>7 DEF Receive

(* Every step keeps the cache of the writing process fresh.                *)
LEMMA FreshNext ==
    ASSUME OneWriter, StoreInv, Starts, NEW p \in Procs, Sole(p), Fresh(p), Next
    PROVE  Fresh(p)'
    <1>0. /\ TypeOK /\ \A w \in Writes : answer[w] = "refused" => answer'[w] = "refused"
        BY RefusedStays DEF StoreInv
    <1>1. ASSUME UNCHANGED <<db, cache, outbox, worker, life>> PROVE Fresh(p)'
        BY <1>0, <1>1, FreshBeside
    <1>2. ASSUME NEW w \in Writes, Issue(w) \/ Refresh(w) \/ Draft(w) PROVE Fresh(p)'
        BY <1>1, <1>2 DEF Issue, Refresh, Draft
    <1>3. ASSUME NEW r \in Reads, Read(r) PROVE Fresh(p)'
        BY <1>1, <1>3 DEF Read
    <1>4. ASSUME NEW q \in Procs, q # p, ProcNext(q) PROVE Fresh(p)'
        <2>1. ~Commit(q)
            <3>1. ASSUME Commit(q) PROVE FALSE
                BY <1>4, <3>1, Commits DEF Sole
            <3> QED BY <3>1
        <2>2. UNCHANGED db
            BY <1>4, <2>1 DEF ProcNext, Boot, Receive, Listen, Drain, Close, Exit, Serve, Check,
                              Rollback, WorkerDies, Crash
        <2>3. cache'[p] = cache[p]
            <3>1. UNCHANGED cache \/ \E s : cache' = [cache EXCEPT ![q] = s]
                BY <1>4 DEF ProcNext, Boot, Receive, Listen, Drain, Close, Exit, Serve, Check,
                            Commit, Rollback, WorkerDies, Crash, Initialized, Revised, Fetched, Confirmed,
                            Refused
            <3> QED BY <1>0, <1>4, <3>1 DEF TypeOK
        <2>4. worker'[p] = worker[p]
            <3>1. UNCHANGED worker \/ \E s : worker' = [worker EXCEPT ![q] = s]
                BY <1>4 DEF ProcNext, Boot, Receive, Listen, Drain, Close, Exit, Serve, Check,
                            Commit, Rollback, WorkerDies, Crash
            <3> QED BY <1>0, <1>4, <3>1 DEF TypeOK
        <2>5. life'[p] = life[p]
            <3>1. UNCHANGED life \/ \E s : life' = [life EXCEPT ![q] = s]
                BY <1>4 DEF ProcNext, Boot, Receive, Listen, Drain, Close, Exit, Serve, Check,
                            Commit, Rollback, WorkerDies, Crash, Initialized, Revised, Fetched, Confirmed,
                            Refused
            <3> QED BY <1>0, <1>4, <3>1 DEF TypeOK
        <2>6. outbox'[p] = outbox[p]
            <3>1. UNCHANGED outbox \/ \E s : outbox' = [outbox EXCEPT ![q] = s]
                BY <1>4 DEF ProcNext, Boot, Receive, Listen, Drain, Close, Exit, Serve, Check,
                            Commit, Rollback, WorkerDies, Crash, Abandon, Reply
            <3> QED BY <1>0, <1>4, <3>1 DEF TypeOK
        <2> QED BY <1>0, <2>2, <2>3, <2>4, <2>5, <2>6, FreshBeside
    <1>5. ASSUME ProcNext(p) PROVE Fresh(p)'
        <2>1. CASE Receive(p)
            BY <1>0, <2>1, FreshReceive
        <2>2. CASE Serve(p) \/ Check(p) \/ Commit(p) \/ Rollback(p)
            BY <2>2, FreshWork
        <2>3. CASE Boot(p)
            <3>1. life'[p] = "init" /\ UNCHANGED <<db, cache, outbox>>
                BY <1>0, <2>3 DEF Boot, TypeOK
            <3> QED BY <3>1 DEF Fresh, Coming
        <2>4. CASE Exit(p) \/ Crash(p) \/ WorkerDies(p)
            <3>1. outbox'[p] = <<>> /\ ~worker'[p]
                BY <1>0, <2>4 DEF Exit, Crash, WorkerDies, Abandon, TypeOK
            <3> QED BY <3>1 DEF Fresh
        <2>5. CASE Drain(p) \/ Close(p)
            <3>1. UNCHANGED <<db, cache, outbox, worker>> /\ life[p] \in {"up", "draining"}
                BY <2>5 DEF Drain, Close
            <3> QED BY <3>1 DEF Fresh, Coming, Unread
        <2>6. CASE Listen(p)
            <3>1. UNCHANGED <<db, cache, outbox, worker>> /\ life[p] = "boot" /\ Pending(p) = {}
                  /\ \A w \in Replaces \cap Mine(p) : answer[w] # "refused"
                BY <2>6 DEF Listen
            <3>2. \A w \in Replaces : answer[w] # "refused"
                <4>1. \A w \in Replaces : w \in Mine(p)
                    BY CallsAssumption DEF Mine, Sole, Calls
                <4> QED BY <3>1, <4>1
            <3>3. \A i \in 1..Len(outbox[p]) : outbox[p][i].type # "failed"
                <4>1. ASSUME NEW i \in 1..Len(outbox[p]), outbox[p][i].type = "failed" PROVE FALSE
                    <5> DEFINE w == outbox[p][i].from
                    <5>1. w \in Writes /\ phase[w] = "sent" /\ Owner[w] = p
                        BY <4>1 DEF StoreInv, Messages, Answered
                    <5>2. w \in Pending(p)
                        BY <5>1 DEF Pending, Mine, Calls, StoreInv, Told, Active
                    <5> QED BY <3>1, <5>2
                <4> QED BY <4>1
            <3>4. ~Unread(p)
                BY <3>2, <3>3 DEF Unread
            <3> QED BY <3>1, <3>4 DEF Fresh, Coming
        <2> QED BY <1>5, <2>1, <2>2, <2>3, <2>4, <2>5, <2>6 DEF ProcNext
    <1> QED BY <1>2, <1>3, <1>4, <1>5 DEF Next

CacheInv == StoreInv /\ Starts /\ Current

(* Every step keeps the invariant.                                         *)
LEMMA CacheNext == ASSUME OneWriter PROVE CacheInv /\ [Next]_vars => CacheInv'
    <1> SUFFICES ASSUME CacheInv, [Next]_vars PROVE CacheInv'
        OBVIOUS
    <1>1. StoreInv'
        BY InvNext DEF CacheInv
    <1>2. CASE UNCHANGED vars
        BY <1>1, <1>2 DEF CacheInv, vars, Starts, Boxes, Fits, Waiting, Current, Fresh,
                            Coming, Unread
    <1>3. CASE Next
        <2>1. Current'
            BY <1>3, FreshNext DEF CacheInv, Current, Sole
        <2>2. Starts'
            <3>1. ASSUME NEW p \in Procs, ProcNext(p) PROVE Starts'
                BY <3>1, StartsBoot, StartsLife, StartsEnd, StartsWork, StartsReceive
                   DEF ProcNext, CacheInv
            <3>2. ASSUME NEW w \in Writes, Issue(w) \/ Refresh(w) \/ Draft(w) PROVE Starts'
                BY <3>2, StartsCall DEF CacheInv
            <3>3. ASSUME NEW r \in Reads, Read(r) PROVE Starts'
                BY <3>3, StartsRead DEF CacheInv
            <3> QED BY <1>3, <3>1, <3>2, <3>3 DEF Next
        <2> QED BY <1>1, <2>1, <2>2 DEF CacheInv
    <1> QED BY <1>2, <1>3

(* The invariant implies the property.                                     *)
LEMMA CacheNow == CacheInv => CacheIsHead
    <1> SUFFICES ASSUME CacheInv, NEW p \in Procs, \A w \in Writes : Owner[w] = p,
                        worker[p], life[p] \in {"up", "draining", "closing"},
                        \A i \in DOMAIN outbox[p] : outbox[p][i].type # "committed"
                 PROVE  cache[p] = db
        BY DEF CacheIsHead
    <1>1. DOMAIN outbox[p] = 1..Len(outbox[p])
        BY DEF CacheInv, StoreInv, TypeOK
    <1>2. ~Coming(p, 0) /\ ~Unread(p)
        BY <1>1 DEF Coming, Unread
    <1>3. Fresh(p)
        BY DEF CacheInv, Current, Sole
    <1> QED BY <1>2, <1>3 DEF Fresh

(* The snapshot that the writing process gives out without asking lags the *)
(* database only while the answer of a commit is on its way, for any number *)
(* of calls, faults and starts (refreshStateSnapshot, installStateSnapshot). *)
THEOREM CacheIsCurrent == Spec => []CacheIsHead
    <1>1. CASE OneWriter
        <2>1. Init => CacheInv
            <3> SUFFICES ASSUME Init PROVE CacheInv
                OBVIOUS
            <3>1. StoreInv
                BY InvInit
            <3>2. Starts
                BY DEF Init, Starts, Boxes, Waiting, Fits
            <3>3. Current
                BY DEF Init, Current, Fresh
            <3> QED BY <3>1, <3>2, <3>3 DEF CacheInv
        <2>2. CacheInv /\ [Next]_vars => CacheInv'
            BY <1>1, CacheNext
        <2> QED BY <2>1, <2>2, CacheNow, PTL DEF Spec
    <1>2. CASE ~OneWriter
        <2>1. CacheIsHead
            BY <1>2 DEF OneWriter, CacheIsHead
        <2> QED BY <2>1, PTL
    <1> QED BY <1>1, <1>2
=============================================================================
