---------------------------- MODULE MCCardUpkeep ----------------------------
(***************************************************************************)
(* Small instances of CardUpkeep for TLC.                                  *)
(***************************************************************************)
EXTENDS CardUpkeep, TLC

CONSTANTS q1, q2, b1
=============================================================================
