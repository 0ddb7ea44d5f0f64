----------------------------- MODULE AudioCache -----------------------------
(***************************************************************************)
(* One MP3 and its row in the audio cache (audio.synthesize_with_cache):   *)
(* every caller looks the row up, else synthesizes, stores the object and  *)
(* inserts the row in a transaction of its own.  The object store is S3,   *)
(* whose put is atomic, or a local directory, where a thread truncates the *)
(* file and then writes it, which may fail, and survives the coroutine     *)
(* that started it.                                                        *)
(* A caller that was given the URL fetches the object for its Anki card.   *)
(***************************************************************************)
EXTENDS Integers, FiniteSets

CONSTANTS
    Calls,          \* callers of synthesize_with_cache
    MaxCrashes      \* bound: restarts of the process

VARIABLES
    atomic,     \* the settings' storage: S3AudioStorage or LocalDirAudioStorage
    row,        \* the audio_cache row is committed
    object,     \* the stored object: "none", "partial" or "whole"
    pc,         \* where each call is
    writing,    \* calls whose thread has truncated the file
    torn,       \* a thread broke off since the file was last written
    got,        \* what each call's fetch returned
    crashes

vars == <<atomic, row, object, pc, writing, torn, got, crashes>>

TypeOK ==
    /\ {atomic, row} \subseteq BOOLEAN
    /\ object \in {"none", "partial", "whole"}
    /\ pc \in [Calls -> {"idle", "synthesizing", "putting", "storing", "returned", "gone"}]
    /\ writing \subseteq Calls
    /\ torn \in BOOLEAN
    /\ got \in [Calls -> {"nothing", "partial", "whole"}]
    /\ crashes \in Nat

Init ==
    /\ atomic \in BOOLEAN
    /\ row = FALSE
    /\ object = "none"
    /\ pc = [c \in Calls |-> "idle"]
    /\ writing = {}
    /\ torn = FALSE
    /\ got = [c \in Calls |-> "nothing"]
    /\ crashes = 0

-----------------------------------------------------------------------------
Goto(c, next) == pc' = [pc EXCEPT ![c] = next]

Lookup(c) ==
    /\ pc[c] = "idle"
    /\ Goto(c, IF row THEN "returned" ELSE "synthesizing")
    /\ UNCHANGED <<atomic, row, object, writing, torn, got, crashes>>

AfterSynthesisRow == "storing"                  \* mutant: row before object
AfterSynthesis == "putting"

Synthesize(c) ==
    /\ pc[c] = "synthesizing"
    /\ Goto(c, AfterSynthesis)
    /\ UNCHANGED <<atomic, row, object, writing, torn, got, crashes>>

PutObject(c) ==
    /\ atomic
    /\ pc[c] = "putting"
    /\ object' = "whole"
    /\ Goto(c, "storing")
    /\ UNCHANGED <<atomic, row, writing, torn, got, crashes>>

(* _write: open truncates, the bytes follow.                               *)
TruncateFile(c) ==
    /\ ~atomic
    /\ pc[c] = "putting" /\ c \notin writing
    /\ object' = "partial"
    /\ writing' = writing \cup {c}
    /\ UNCHANGED <<atomic, row, pc, torn, got, crashes>>

(* The thread is done; its coroutine goes on unless it was cancelled.      *)
WriteFile(c) ==
    /\ c \in writing
    /\ object' = "whole"
    /\ writing' = writing \ {c}
    /\ torn' = FALSE
    /\ pc' = IF pc[c] = "putting" THEN [pc EXCEPT ![c] = "storing"] ELSE pc
    /\ UNCHANGED <<atomic, row, got, crashes>>

(* write_bytes raises in the middle (the disk is full): the file stays as  *)
(* it is, and the error ends the call unless it was cancelled before.      *)
WriteFails(c) ==
    /\ c \in writing
    /\ writing' = writing \ {c}
    /\ torn' = TRUE
    /\ pc' = IF pc[c] = "putting" THEN [pc EXCEPT ![c] = "gone"] ELSE pc
    /\ UNCHANGED <<atomic, row, object, got, crashes>>

(* The unique constraint makes a second insert a no-op.                    *)
StoreRow(c) ==
    /\ pc[c] = "storing"
    /\ row' = TRUE
    /\ Goto(c, "returned")
    /\ UNCHANGED <<atomic, object, writing, torn, got, crashes>>

(* write_entry_to_anki reads the MP3 back.                                 *)
Fetch(c) ==
    /\ pc[c] = "returned"
    /\ got' = [got EXCEPT ![c] = object]
    /\ Goto(c, "gone")
    /\ UNCHANGED <<atomic, row, object, writing, torn, crashes>>

(* The caller's timeout, which leaves a thread of to_thread running, or a  *)
(* failing synthesis, put (before the file is truncated) or insert.        *)
Cancel(c) ==
    /\ pc[c] \in {"synthesizing", "putting", "storing"}
    /\ Goto(c, "gone")
    /\ UNCHANGED <<atomic, row, object, writing, torn, got, crashes>>

Crash ==
    /\ crashes < MaxCrashes /\ crashes' = crashes + 1
    /\ pc' = [c \in Calls |-> IF pc[c] = "idle" THEN "idle" ELSE "gone"]
    /\ writing' = {}
    /\ torn' = (torn \/ writing # {})
    /\ UNCHANGED <<atomic, row, object, got>>

Next ==
    \/ \E c \in Calls : \/ Lookup(c) \/ Synthesize(c) \/ PutObject(c) \/ TruncateFile(c)
                        \/ WriteFile(c) \/ WriteFails(c) \/ StoreRow(c) \/ Fetch(c) \/ Cancel(c)
    \/ Crash

Spec == Init /\ [][Next]_vars

-----------------------------------------------------------------------------
(* A cached row never promises an object the store does not have, whoever  *)
(* crashed, failed or was cancelled: nothing would ever synthesize it      *)
(* again.  From S3, whoever was given the URL fetches the whole MP3.  A    *)
(* local file under a row is incomplete only while a late caller writes it *)
(* again, or because one broke off, by an error or with its process, and   *)
(* no other has written it since.                                          *)
RowHasObject ==
    /\ row => object # "none"
    /\ row /\ object = "partial" => writing # {} \/ torn
    /\ atomic => \A c \in Calls : got[c] \in {"nothing", "whole"}
=============================================================================
