---------------------------- MODULE SerialStore ----------------------------
(***************************************************************************)
(* What the state store promises to those who write through it: one value, *)
(* to which every write is added at most once and on top of all the writes *)
(* before it.  A confirmed write is in the value and stays there, across   *)
(* crashes of the process; a write that was refused, or whose writer died, *)
(* may have taken effect before that was known but never does afterwards.  *)
(***************************************************************************)
CONSTANT Writes

VARIABLES
    value,   \* the writes that have taken effect
    answer   \* what each writer was told

Answer == {"none", "pending", "ok", "unchanged", "refused", "lost"}

Init ==
    /\ value = {}
    /\ answer = [w \in Writes |-> "none"]

Pending(w) == answer[w] = "pending"

Issue(w) ==
    /\ answer[w] = "none"
    /\ answer' = [answer EXCEPT ![w] = "pending"]
    /\ UNCHANGED value

Commit(w) ==
    /\ Pending(w)
    /\ w \notin value
    /\ value' = value \cup {w}
    /\ UNCHANGED answer

Confirm(w) ==
    /\ Pending(w)
    /\ w \in value
    /\ answer' = [answer EXCEPT ![w] = "ok"]
    /\ UNCHANGED value

\* the writer found nothing to change
Skip(w) ==
    /\ Pending(w)
    /\ w \notin value
    /\ answer' = [answer EXCEPT ![w] = "unchanged"]
    /\ UNCHANGED value

\* an error, or a crash, that reaches several writers at once
Fail ==
    /\ \E W \in (SUBSET {w \in Writes : Pending(w)}) \ {{}}, a \in {"refused", "lost"} :
           answer' = [w \in Writes |-> IF w \in W THEN a ELSE answer[w]]
    /\ UNCHANGED value

Next ==
    \/ \E w \in Writes : Issue(w) \/ Commit(w) \/ Confirm(w) \/ Skip(w)
    \/ Fail

Spec == Init /\ [][Next]_<<value, answer>>
=============================================================================
