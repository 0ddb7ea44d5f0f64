---------------------------- MODULE MCWordCaches ----------------------------
(***************************************************************************)
(* Small instances of WordCaches for TLC.                                  *)
(***************************************************************************)
EXTENDS WordCaches, TLC

CONSTANTS c1, c2, c3, l1, full1, full2, bare1, old

(* Jobs of one kind play the same part and may be swapped, and so may      *)
(* complete answers.                                                       *)
SymCalls == Permutations({c1, c2, c3}) \cup Permutations({full1, full2})
=============================================================================
