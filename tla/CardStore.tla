------------------------------ MODULE CardStore ------------------------------
(***************************************************************************)
(* What every Anki backend promises the code that calls it (AnkiBackend in *)
(* anki_writer.py): a call that returns has put its card, or its change of *)
(* a card, where the user will find it, for good; one that raises, or that *)
(* was cancelled, may have done so, or may still do it.  AnkiSync and      *)
(* LocalAnki implement it.                                                 *)
(***************************************************************************)
CONSTANTS Calls

VARIABLES
    call,       \* "none", "open", "returned" or "raised"
    held        \* calls whose card or change is in the user's collection

TypeOK ==
    /\ call \in [Calls -> {"none", "open", "returned", "raised"}]
    /\ held \subseteq Calls

Init ==
    /\ call = [c \in Calls |-> "none"]
    /\ held = {}

(* A call ends once, with one answer; several may end in the same step     *)
(* when the process dies.                                                  *)
Follows(s) == CASE s = "none" -> {"none", "open"}
                [] s = "open" -> {"open", "returned", "raised"}
                [] OTHER      -> {s}

(* Nothing arrives from a call that was never made, and what was reported  *)
(* never goes; what was not reported may come late and may get lost.       *)
Serve ==
    /\ call' \in [Calls -> {"none", "open", "returned", "raised"}]
    /\ \A c \in Calls :
          /\ call'[c] \in Follows(call[c])
          /\ call'[c] = "returned" => c \in held'
          /\ c \in held' => c \in held \/ call[c] # "none"

Spec == Init /\ [][Serve]_<<call, held>>
=============================================================================
