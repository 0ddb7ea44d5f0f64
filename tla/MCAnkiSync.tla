----------------------------- MODULE MCAnkiSync -----------------------------
(***************************************************************************)
(* Small instances of AnkiSync for TLC.                                    *)
(***************************************************************************)
EXTENDS AnkiSync, TLC

CONSTANTS c1, c2, u1, p1
=============================================================================
