-------------------------- MODULE MCReleaseUpgrade --------------------------
(***************************************************************************)
(* Instances of ReleaseUpgrade.                                            *)
(***************************************************************************)
EXTENDS ReleaseUpgrade, TLC
=============================================================================
