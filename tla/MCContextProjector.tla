------------------------- MODULE MCContextProjector -------------------------
(***************************************************************************)
(* Instances of ContextProjector.                                          *)
(***************************************************************************)
EXTENDS ContextProjector, TLC
=============================================================================
