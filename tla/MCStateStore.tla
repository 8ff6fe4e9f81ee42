---------------------------- MODULE MCStateStore ----------------------------
(***************************************************************************)
(* An instance of StateStore: the service, which crashes and starts again, *)
(* and the probe of the release script, which reads beside it.             *)
(***************************************************************************)
EXTENDS StateStore, TLC

CONSTANTS service, probe, w1, w2, w3, r1

WriterOwner == [c \in {w1, w2, w3} |-> service] @@ r1 :> probe
=============================================================================
