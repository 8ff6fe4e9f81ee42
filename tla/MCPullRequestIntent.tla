------------------------ MODULE MCPullRequestIntent ------------------------
(***************************************************************************)
(* Instances of PullRequestIntent.                                         *)
(***************************************************************************)
EXTENDS PullRequestIntent, TLC

CONSTANTS c1, c2
=============================================================================
