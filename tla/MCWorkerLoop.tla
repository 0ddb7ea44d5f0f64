---------------------------- MODULE MCWorkerLoop ----------------------------
(***************************************************************************)
(* Small instances of WorkerLoop for TLC.                                  *)
(***************************************************************************)
EXTENDS WorkerLoop, TLC

CONSTANTS e1, e2, e3
=============================================================================
