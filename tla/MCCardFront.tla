---------------------------- MODULE MCCardFront ----------------------------
(***************************************************************************)
(* Small instances of CardFront for TLC.                                   *)
(***************************************************************************)
EXTENDS CardFront, TLC

CONSTANTS ran, run, the
=============================================================================
