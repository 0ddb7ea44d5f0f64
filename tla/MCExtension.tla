---------------------------- MODULE MCExtension ----------------------------
(***************************************************************************)
(* Small instances of Extension for TLC.                                   *)
(***************************************************************************)
EXTENDS Extension, TLC
=============================================================================
