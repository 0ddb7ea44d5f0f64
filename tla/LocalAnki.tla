----------------------------- MODULE LocalAnki -----------------------------
(***************************************************************************)
(* The file-based Anki backend (anki_writer.AnkiWriter): each call runs in *)
(* a thread of its own that opens the user's collection, brings the        *)
(* notetype up to date, adds or updates the note (Notetype) and closes.    *)
(* There is no lock: Anki lets one thread open the file, the others fail.  *)
(* A cancelled coroutine leaves its thread running.                        *)
(***************************************************************************)
EXTENDS Notetype

CONSTANTS
    Writes,         \* write_card calls
    Updates,        \* update_card calls
    Nobody

Calls == Writes \cup Updates

ASSUME LocalAnkiAssumption ==
    /\ Writes \cap Updates = {}
    /\ Nobody \notin Calls

VARIABLES
    notes,      \* calls whose note or change is in the collection
    open,       \* the thread that has the collection open
    thread,     \* where each call's thread is
    answer      \* what each call's coroutine got

vars == <<noteVars, notes, open, thread, answer>>

TypeOK ==
    /\ NoteTypeOK
    /\ notes \subseteq Calls
    /\ open \in Calls \cup {Nobody}
    /\ thread \in [Calls -> {"idle", "opening", "changing", "returning", "raising", "ended"}]
    /\ answer \in [Calls -> {"none", "open", "returned", "raised"}]

Init ==
    /\ NoteInit
    /\ notes = {}
    /\ open = Nobody
    /\ thread = [c \in Calls |-> "idle"]
    /\ answer = [c \in Calls |-> "none"]

-----------------------------------------------------------------------------
Goto(c, next) == thread' = [thread EXCEPT ![c] = next]

(* write_card, update_card: to_thread.                                     *)
Call(c) ==
    /\ thread[c] = "idle"
    /\ Goto(c, "opening")
    /\ answer' = [answer EXCEPT ![c] = "open"]
    /\ UNCHANGED <<noteVars, notes, open>>

OpenCollection(c) ==
    /\ thread[c] = "opening"
    /\ open = Nobody
    /\ open' = c
    /\ Goto(c, "changing")
    /\ UNCHANGED <<noteVars, notes, answer>>

(* The answer reaches the coroutine, unless it was cancelled.              *)
End(c, result) ==
    /\ Goto(c, "ended")
    /\ answer' = [answer EXCEPT ![c] = IF @ = "open" THEN result ELSE @]

OpenFails(c) ==
    /\ thread[c] = "opening"
    /\ open # Nobody
    /\ End(c, "raised")
    /\ UNCHANGED <<noteVars, notes, open>>

(* add_vocab_note, or update_vocab_note of a note the collection has.      *)
Change(c) ==
    /\ thread[c] = "changing"
    /\ \E d \in Directions, l \in Langs :
          IF c \in Writes THEN AddVocabNote(d, l) ELSE UpdateVocabNote(d, l)
    /\ c \in Updates => notes \cap Writes # {}
    /\ notes' = notes \cup {c}
    /\ Goto(c, "returning")
    /\ UNCHANGED <<open, answer>>

MissingReturns(c) ==                            \* mutant: get_card's error swallowed
    /\ thread[c] = "changing"
    /\ c \in Updates /\ notes \cap Writes = {}
    /\ \E d \in Directions, l \in Langs : UpdateMissesCard(d, l)
    /\ Goto(c, "returning")
    /\ UNCHANGED <<notes, open, answer>>
(* get_card finds no such card.                                            *)
ChangeRaises(c) ==
    /\ thread[c] = "changing"
    /\ c \in Updates /\ notes \cap Writes = {}
    /\ \E d \in Directions, l \in Langs : UpdateMissesCard(d, l)
    /\ Goto(c, "raising")
    /\ UNCHANGED <<notes, open, answer>>

(* finally: col.close()                                                    *)
Close(c) ==
    /\ thread[c] \in {"returning", "raising"}
    /\ open' = Nobody
    /\ End(c, IF thread[c] = "returning" THEN "returned" ELSE "raised")
    /\ UNCHANGED <<noteVars, notes>>

Cancel(c) ==
    /\ answer[c] = "open"
    /\ answer' = [answer EXCEPT ![c] = "raised"]
    /\ UNCHANGED <<noteVars, notes, open, thread>>

(* The process ends: its threads are gone, the file is closed.             *)
Restart ==
    /\ \E c \in Calls : thread[c] \notin {"idle", "ended"}
    /\ open' = Nobody
    /\ thread' = [c \in Calls |-> IF thread[c] = "idle" THEN "idle" ELSE "ended"]
    /\ answer' = [c \in Calls |-> IF answer[c] = "open" THEN "raised" ELSE answer[c]]
    /\ UNCHANGED <<noteVars, notes>>

(* Any number of earlier and later calls, each in one step.                *)
OtherCall ==
    /\ open = Nobody
    /\ \E d \in Directions, l \in Langs : AddVocabNote(d, l) \/ UpdateVocabNote(d, l)
    /\ UNCHANGED <<notes, open, thread, answer>>

Next ==
    \/ \E c \in Calls :
          \/ Call(c) \/ OpenCollection(c) \/ OpenFails(c)
          \/ Change(c) \/ ChangeRaises(c) \/ Close(c) \/ Cancel(c)
    \/ Restart
    \/ OtherCall

Spec == Init /\ [][Next]_vars

-----------------------------------------------------------------------------
(* The backend keeps its promise (CardStore) without a lock: a second      *)
(* thread raises before it has changed anything, and a cancelled call's    *)
(* thread may still add its note, but takes none away.                     *)
Store == INSTANCE CardStore WITH call <- answer, held <- notes

LocalStoreSpec == Store!Spec
=============================================================================
