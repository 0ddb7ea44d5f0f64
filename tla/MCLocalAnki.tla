---------------------------- MODULE MCLocalAnki ----------------------------
(***************************************************************************)
(* Small instances of LocalAnki for TLC.                                   *)
(***************************************************************************)
EXTENDS LocalAnki, TLC

CONSTANTS en, es, c1, u1

(* Languages are alike: all properties here are safety.                    *)
Languages == Permutations({en, es})
=============================================================================
