-------------------------- MODULE MCStateBootstrap --------------------------
(***************************************************************************)
(* Directories that StateBootstrap starts from.                            *)
(***************************************************************************)
EXTENDS StateBootstrap, TLC

AnyFound == {NoFile, State(1)}
AnyLeftover == {NoFile, Torn, State(2)}
=============================================================================
