-------------------------- MODULE MCEntryLifecycle --------------------------
(***************************************************************************)
(* Small instances of EntryLifecycle for TLC.                              *)
(***************************************************************************)
EXTENDS EntryLifecycle, TLC

CONSTANTS e1, e2, w1, w2, a1, r1, run, jog, verb, noun

(* Worker replicas play the same part and may be swapped.                  *)
SymWorkers == Permutations({w1, w2})
=============================================================================
