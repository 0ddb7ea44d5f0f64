--------------------------- MODULE MCKindleImport ---------------------------
(***************************************************************************)
(* Small instances of KindleImport for TLC.                                *)
(***************************************************************************)
EXTENDS KindleImport, TLC

CONSTANTS r1, r2, r3, ann, bob, cat

RequestSymmetry == Permutations({r1, r2, r3})
=============================================================================
